---- MODULE Spec2Model ----
(***************************************************************************)
(* Proxy synchronisation core of bot/bot/handlers/proxy_sync.py:           *)
(*   - ProxyMerger.merge_proxies with ProxyNameGenerator and the           *)
(*     country-code cache (specification SpecMerge);                       *)
(*   - SourceScheduler, ProxySourceManager and                             *)
(*     ProxySyncHandler._sync_single_source as cooperating asyncio tasks   *)
(*     (specification Spec).                                               *)
(* Python semantics assumed: dicts keep insertion order; since Python 3.8  *)
(* asyncio.CancelledError derives from BaseException, so an                *)
(* "except Exception" clause does not catch a task cancellation.           *)
(***************************************************************************)
EXTENDS Integers, Sequences, FiniteSets, TLC

\* ------------------------------------------------------------------ bounds
MaxExisting == 2      \* longest existing collection handed to the first merge
MaxIncoming == 2      \* longest incoming batch of one merge
MaxSecond == 1        \* longest batch of the merge that follows a merge
MaxTasks == 2         \* loop tasks start_scheduler may create
MaxTicks == 1         \* advances of the clock
MaxOps == 3           \* calls of registry operations in a run
MaxCount == 1         \* sync attempts counted per source

\* ------------------------------------------------------------- python values
NONE == "None"            \* Python None
ABSENT == "<absent>"      \* a dict key that is not present
UnknownCountry == "Unknown"   \* the literal "未知" of generate_name, in ASCII

\* truthiness of a str / None value ("if x:")
Truthy(x) == x # NONE /\ x # "" /\ x # ABSENT

Range(s) == {s[i] : i \in 1..Len(s)}

SeqsUpTo(S, n) == UNION {[1..k -> S] : k \in 0..n}

\* ------------------------------------------------------------------ records
IPs == {"1.1.1.1", "2.2.2.2"}
Codes == {"US"}

\* ProxyInfo dataclass; country_code, protocol and source default to None
ProxyInfo(ip, port, name, data, protocol, source) ==
    [ip |-> ip, port |-> port, country_code |-> NONE, name |-> name,
     data |-> data, protocol |-> protocol, source |-> source]

\* ProxyInfo.unique_key: f"{self.ip}:{self.port}"
unique_key(p) == p.ip \o ":" \o ToString(p.port)

\* p.get('name', '') on a proxy dict
DataName(d) == IF d.name = ABSENT THEN "" ELSE d.name

\* a proxy dict (rawFields): server, port, optional name, and the remaining
\* protocol-specific fields taken together as body
ProxyData(server, port, name, body) ==
    [server |-> server, port |-> port, name |-> name, body |-> body]

\* the list comprehension that turns the persisted store into ProxyInfo objects
LoadExisting(store) ==
    LET usable == SelectSeq(store, LAMBDA p : Truthy(p.server) /\ p.port # 0)
    IN [i \in 1..Len(usable) |->
          ProxyInfo(usable[i].server, usable[i].port, DataName(usable[i]), usable[i], NONE, NONE)]

\* proxy_data_list = [p.data for p in merged_proxies if p.data]; every
\* ProxyInfo the parser or the store loader builds carries a non-empty dict,
\* so the filter keeps every record
SaveList(merged) == [i \in 1..Len(merged) |-> merged[i].data]

\* ProxyInfo built by parse_mixed_content / parse_yaml_content from one parsed dict
ParsedInfo(data, protocol, source_name) ==
    ProxyInfo(data.server, data.port, DataName(data), data, protocol, source_name)

\* ------------------------------------------------------------- name generation
\* the value generate_name returns: f"{country}|{proxy_info.unique_key}"
generate_name(p) ==
    (IF Truthy(p.country_code) THEN p.country_code ELSE UnknownCountry)
        \o "|" \o unique_key(p)

\* the cache of RateLimitedCountryProvider: NONE stands for "ip not in cache"
EmptyCache == [ip \in IPs |-> NONE]

\* what an outbound lookup can answer: a country code, or None on any failure
LookupResults == Codes \cup {NONE}

\* get_country_code after the outbound call: only a success is cached
CacheAfter(cch, ip, r) == IF r # NONE THEN [cch EXCEPT ![ip] = r] ELSE cch

\* --------------------------------------------------------------------- merge
KeyIndex_NeverFound(m, k) == 0

\* position of key k in the ordered dict m (0: not in the dict)
KeyIndex(m, k) ==
    IF \E j \in 1..Len(m) : unique_key(m[j]) = k
    THEN CHOOSE j \in 1..Len(m) : unique_key(m[j]) = k
    ELSE 0

Keys(s) == {unique_key(s[i]) : i \in 1..Len(s)}

UniqueKeys(s) == \A i, j \in 1..Len(s) : unique_key(s[i]) = unique_key(s[j]) => i = j

RECURSIVE SeedMapFrom(_, _, _)
SeedMapFrom(existing, i, m) ==
    IF i > Len(existing) THEN m
    ELSE LET p == existing[i]
             j == KeyIndex(m, unique_key(p))
         IN SeedMapFrom(existing, i + 1,
                        IF j = 0 THEN Append(m, p) ELSE [m EXCEPT ![j] = p])

merged_proxies_map_Reversed(existing) ==
    SeedMapFrom([i \in 1..Len(existing) |-> existing[Len(existing) + 1 - i]], 1, <<>>)

\* {p.unique_key: p for p in existing_proxies}: first occurrence fixes the
\* position, last occurrence the value
merged_proxies_map(existing) == SeedMapFrom(existing, 1, <<>>)

UpdateExisting_TakeNewName(old, c) ==
    [old EXCEPT !.ip = c.ip, !.port = c.port, !.country_code = c.country_code,
                !.protocol = c.protocol, !.source = c.source, !.data = c.data,
                !.name = c.name]

UpdateExisting_KeepData(old, c) ==
    [old EXCEPT !.ip = c.ip, !.port = c.port, !.country_code = c.country_code,
                !.protocol = c.protocol, !.source = c.source]

\* the data dict of the candidate after the update branch: it is shared with
\* the stored object, so data['name'] = original_name changes both
UpdatedData(old, c) ==
    IF Truthy(old.name) /\ c.data.name # ABSENT
    THEN [c.data EXCEPT !.name = old.name]
    ELSE c.data

\* the branch "unique_key in merged_proxies_map": every attribute but the name
\* is overwritten; the name attribute is assigned only when the original name
\* is non-empty, and then with the original name
UpdateExisting(old, c) ==
    LET original_name == old.name
    IN [old EXCEPT !.ip = c.ip, !.port = c.port, !.country_code = c.country_code,
                   !.protocol = c.protocol, !.source = c.source,
                   !.data = UpdatedData(old, c),
                   !.name = IF Truthy(original_name) THEN original_name ELSE old.name]

\* the branch of a new key: generate_name's return value is not assigned, the
\* candidate keeps its own name and copies it into its (non-empty) data dict
InsertNew(c) == [c EXCEPT !.data.name = c.name]

\* state of one merge_proxies call: the ordered dict, the incoming list (whose
\* objects the call mutates), the index of the candidate being handled, stats
MergeStart(existing, incoming) ==
    [map |-> merged_proxies_map(existing), inc |-> incoming, i |-> 1,
     stats |-> [added |-> 0, updated |-> 0, total_new_incoming |-> Len(incoming)]]

MergeCandidate_DropNew(ms, c) ==
    LET j == KeyIndex(ms.map, unique_key(c))
    IN IF j # 0
       THEN [ms EXCEPT !.map[j] = UpdateExisting(ms.map[j], c),
                       !.inc[ms.i] = [c EXCEPT !.data = UpdatedData(ms.map[j], c)],
                       !.i = ms.i + 1, !.stats.updated = ms.stats.updated + 1]
       ELSE [ms EXCEPT !.inc[ms.i] = InsertNew(c),
                       !.i = ms.i + 1, !.stats.added = ms.stats.added + 1]

\* one iteration of the for loop, from "unique_key = ..." on, for candidate c
\* whose country code generate_name has already filled in
MergeCandidate(ms, c) ==
    LET j == KeyIndex(ms.map, unique_key(c))
    IN IF j # 0
       THEN [ms EXCEPT !.map[j] = UpdateExisting(ms.map[j], c),
                       !.inc[ms.i] = [c EXCEPT !.data = UpdatedData(ms.map[j], c)],
                       !.i = ms.i + 1, !.stats.updated = ms.stats.updated + 1]
       ELSE [ms EXCEPT !.map = Append(ms.map, InsertNew(c)),
                       !.inc[ms.i] = InsertNew(c),
                       !.i = ms.i + 1, !.stats.added = ms.stats.added + 1]

MergeDone(ms) == ms.i > Len(ms.inc)

\* merge_proxies runs without suspending until generate_name has to make an
\* outbound lookup (country_code empty and ip not cached): the only await
RECURSIVE MergeRun(_, _)
MergeRun(ms, cch) ==
    IF MergeDone(ms) THEN ms
    ELSE LET c == ms.inc[ms.i]
         IN IF Truthy(c.country_code) THEN MergeRun(MergeCandidate(ms, c), cch)
            ELSE IF cch[c.ip] # NONE
                 THEN MergeRun(MergeCandidate(ms, [c EXCEPT !.country_code = cch[c.ip]]), cch)
                 ELSE ms

\* the lookup awaited for candidate ms.i answers r; the merge runs on
MergeResume(ms, cch, r) ==
    LET c == ms.inc[ms.i]
    IN MergeRun(MergeCandidate(ms, [c EXCEPT !.country_code = r]),
                CacheAfter(cch, c.ip, r))

\* ------------------------------------------------------------ merge inputs
\* dicts of the persisted store
StoredData ==
    {ProxyData("1.1.1.1", 443, "", "stored"),
     ProxyData("1.1.1.1", 443, "Old", "stored"),
     ProxyData("1.1.1.1", 8388, "Old", "stored"),
     ProxyData("2.2.2.2", 443, "", "stored")}

\* parser output: records that differ in endpoint, name, protocol, fields and source
IncomingInfos ==
    {ParsedInfo(ProxyData("1.1.1.1", 443, "", "ss-fields"), "ss", "srcA"),
     ParsedInfo(ProxyData("1.1.1.1", 443, "New", "trojan-fields"), "trojan", "srcB"),
     ParsedInfo(ProxyData("1.1.1.1", 8388, ABSENT, "yaml-fields"), "vmess", "srcA"),
     ParsedInfo(ProxyData("2.2.2.2", 443, "New", "trojan-fields"), "trojan", "srcB")}

NoMerge == MergeStart(<<>>, <<>>)

\* a loop task of the scheduler, suspended at pc:
\*   "new"     created, not yet run          "fetch"  awaiting fetch_from_url
\*   "lookup"  awaiting a country lookup     "notify" awaiting admin_send_callback
\*   "sleep"   awaiting the poll sleep in finally
\*   "dying"   cancelled inside the try block: in the sleep of finally, break pending
\*   "done"    finished
\* due/idx: the due list of this pass and the source being handled;
\* existing/ms: the sync's loaded store and merge state; result: what the
\* sync callback gave; sent: the notifications of this pass. The locals of a
\* pass are dead once the task sleeps or has ended
NewTask ==
    [pc |-> "new", due |-> <<>>, idx |-> 0, existing |-> <<>>, ms |-> NoMerge,
     result |-> NONE, sent |-> <<>>]

\* no manual sync is under way
NoManual == [NewTask EXCEPT !.pc = "idle"]

\* the parser has not been called. A call is recorded as: op, dec: the
\* decoder called, proto: the protocol detected, parts: the candidates of the
\* splitter, recs: the records returned, raised: an exception left the call
NoOut ==
    [op |-> "none", dec |-> "", proto |-> "", parts |-> <<>>, recs |-> <<>>,
     raised |-> FALSE]

\* no ProxySourceManager operation has been called yet. A call is recorded
\* as: seq: how many calls were made, op and name, the arguments (minutes: interval, flag: enabled or
\* success, n: proxy_count), ok: whether the write of the file succeeded,
\* ret: the value returned, t: time.time() of the call, before/file: the
\* registry and the registry file before the call
NoOp ==
    [seq |-> 0, op |-> "none", name |-> "", minutes |-> 0, flag |-> FALSE, n |-> 0,
     ok |-> TRUE, ret |-> FALSE, t |-> 0, before |-> <<>>, file |-> <<>>]

\* the handler and its scheduler hold one and the same ProxySourceManager
SameManager == [same |-> TRUE, sources |-> <<>>]

VARIABLES mExisting, mMerge, mRound, mKeys, cache,
          now, sources, store, is_running, scheduler_task, tasks,
          saved, rop, manual, kept, pin, pout, source_manager

mvars == <<mExisting, mMerge, mRound, mKeys>>

\* the clock, ProxySourceManager.sources, the persisted proxy file, and the
\* SourceScheduler with every loop task it has created
svars == <<now, sources, store, is_running, scheduler_task, tasks>>

\* the JSON file of the registry (SOURCE_CONFIG_FILE), and the last call of a
\* ProxySourceManager operation with the registry and the file as they were
\* before it
rvars == <<saved, rop>>

\* the manual sync of one source a handler is running (handle_sync_single_source),
\* and every unique_key that has been in the persisted proxy file so far
xvars == <<manual, kept>>

\* the text handed to the parser and what the parser gave for it
pvars == <<pin, pout>>

\* ProxySyncHandler.source_manager: the manager the scheduler was built with
\* (same), or a manager of its own with its own registry
hvars == <<source_manager>>

vars == <<mvars, cache, svars, rvars, xvars, pvars, hvars>>

mMerged == mMerge.map

mDone == MergeDone(mMerge)

InitMerge ==
    /\ cache = EmptyCache
    /\ now = 0 /\ sources = <<>> /\ store = <<>>
    /\ is_running = FALSE /\ scheduler_task = 0 /\ tasks = <<>>
    /\ saved = <<>> /\ rop = NoOp
    /\ manual = NoManual /\ kept = {}
    /\ pin = <<>> /\ pout = NoOut
    /\ source_manager = SameManager
    /\ mRound = 1
    /\ \E stored \in SeqsUpTo(StoredData, MaxExisting), incoming \in SeqsUpTo(IncomingInfos, MaxIncoming) :
          /\ mExisting = LoadExisting(stored)
          /\ mMerge = MergeRun(MergeStart(LoadExisting(stored), incoming), EmptyCache)
          /\ mKeys = Keys(LoadExisting(stored)) \cup Keys(incoming)

\* the country lookup a suspended merge waits for returns
MergeLookupReturn ==
    /\ ~mDone
    /\ \E r \in LookupResults :
          /\ mMerge' = MergeResume(mMerge, cache, r)
          /\ cache' = CacheAfter(cache, mMerge.inc[mMerge.i].ip, r)
    /\ UNCHANGED <<mExisting, mRound, mKeys, svars, rvars, xvars, pvars, hvars>>

\* the merged list is merged again with a further batch, handed over directly
\* or through the persisted store as the sync methods do
MergeAgain ==
    /\ mDone
    /\ mRound = 1
    /\ \E incoming \in SeqsUpTo(IncomingInfos, MaxSecond), reload \in BOOLEAN :
          LET existing == IF reload THEN LoadExisting(SaveList(mMerged)) ELSE mMerged
          IN /\ mExisting' = existing
             /\ mMerge' = MergeRun(MergeStart(existing, incoming), cache)
             /\ mKeys' = mKeys \cup Keys(incoming)
    /\ mRound' = mRound + 1
    /\ UNCHANGED <<cache, svars, rvars, xvars, pvars, hvars>>

NextMerge == MergeLookupReturn \/ MergeAgain

SpecMerge == InitMerge /\ [][NextMerge]_vars

\* ------------------------------------------------------- claims on the merge
\* the record of the merged list at key k (k is a key of the list)
At(s, k) == s[KeyIndex(s, k)]

\* the last record of list s whose key is k
LastAt(s, k) ==
    s[CHOOSE i \in 1..Len(s) :
        /\ unique_key(s[i]) = k
        /\ \A j \in 1..Len(s) : unique_key(s[j]) = k => j <= i]

Occurrences(s, k) == Cardinality({i \in 1..Len(s) : unique_key(s[i]) = k})

\* C1: during and after every merge, also one whose existing collection or
\* incoming batch repeats a key and one that follows an earlier merge, the
\* merged collection and the list written to the store hold at most one
\* record per uniqueKey.
C1_OneRecordPerKey ==
    /\ UniqueKeys(mMerged)
    /\ UniqueKeys(LoadExisting(SaveList(mMerged)))

C1_Witness ==
    /\ mDone
    /\ ~UniqueKeys(mExisting)
    /\ ~UniqueKeys(mMerge.inc)
    /\ Len(mMerged) >= 2

\* C2 as stated: whenever the existing collection holds some record at key K
\* with non-empty name N and the batch holds a record at K, the merged record
\* at K is named N and the batch records at K count as updated.
C2_AnyStoredNamePreserved ==
    mDone =>
        \A i \in 1..Len(mExisting) :
            LET K == unique_key(mExisting[i])
            IN (Truthy(mExisting[i].name) /\ K \in Keys(mMerge.inc)) =>
                  /\ At(mMerged, K).name = mExisting[i].name
                  /\ mMerge.stats.added = Cardinality(Keys(mMerge.inc) \ Keys(mExisting))
                  /\ mMerge.stats.updated = Len(mMerge.inc) - mMerge.stats.added

\* C2 amended: when the last record of the existing collection at key K has
\* the non-empty name N and the batch holds a record at K, the merged record
\* at K is named N; added counts the batch keys that are new, updated every
\* other batch record.
C2_LastStoredNamePreserved ==
    mDone =>
        \A K \in Keys(mExisting) \cap Keys(mMerge.inc) :
            Truthy(LastAt(mExisting, K).name) =>
                /\ At(mMerged, K).name = LastAt(mExisting, K).name
                /\ mMerge.stats.added = Cardinality(Keys(mMerge.inc) \ Keys(mExisting))
                /\ mMerge.stats.updated = Len(mMerge.inc) - mMerge.stats.added

\* scenario 5: existing [{1.1.1.1:443, Old}], incoming [{1.1.1.1:443, ""}]
C2_Witness ==
    /\ mDone
    /\ mRound = 1
    /\ mExisting = LoadExisting(<<ProxyData("1.1.1.1", 443, "Old", "stored")>>)
    /\ Len(mMerge.inc) = 1
    /\ unique_key(mMerge.inc[1]) = "1.1.1.1:443"
    /\ mMerge.inc[1].name = ""
    /\ Len(mMerged) = 1
    /\ mMerged[1].name = "Old"
    /\ mMerge.stats.added = 0
    /\ mMerge.stats.updated = 1

\* C3: a stored record with an empty name whose key is in the batch ends the
\* merge with the resolved name of a batch record at that key, not with the
\* empty name.
C3_EmptyStoredNameReplaced ==
    mDone =>
        \A K \in Keys(mExisting) \cap Keys(mMerge.inc) :
            ~Truthy(LastAt(mExisting, K).name) =>
                /\ Truthy(At(mMerged, K).name)
                /\ \E i \in 1..Len(mMerge.inc) :
                      /\ unique_key(mMerge.inc[i]) = K
                      /\ At(mMerged, K).name \in {generate_name(mMerge.inc[i]), mMerge.inc[i].name}

\* C4: a batch record with a new key and an empty name is inserted under the
\* generated name "{countryCode or Unknown}|{uniqueKey}".
C4_NewKeyGetsGeneratedName ==
    mDone =>
        \A i \in 1..Len(mMerge.inc) :
            LET K == unique_key(mMerge.inc[i])
            IN (K \notin Keys(mExisting) /\ Occurrences(mMerge.inc, K) = 1
                    /\ mMerge.inc[i].name = "") =>
                  At(mMerged, K).name = generate_name(mMerge.inc[i])

\* C5: for every key of the batch the merged record has the protocol, source,
\* country code and data fields (name apart) of the last batch record at
\* that key.
C5_LastWriteWins ==
    mDone =>
        \A K \in Keys(mMerge.inc) :
            LET c == LastAt(mMerge.inc, K)
                r == At(mMerged, K)
            IN /\ r.ip = c.ip /\ r.port = c.port
               /\ r.protocol = c.protocol
               /\ r.source = c.source
               /\ r.country_code = c.country_code
               /\ r.data.server = c.data.server
               /\ r.data.port = c.data.port
               /\ r.data.body = c.data.body

C5_Witness ==
    /\ mDone
    /\ \E i, j \in 1..Len(mMerge.inc) :
          /\ i < j
          /\ unique_key(mMerge.inc[i]) = unique_key(mMerge.inc[j])
          /\ mMerge.inc[i].protocol # mMerge.inc[j].protocol
          /\ unique_key(mMerge.inc[i]) \in Keys(mExisting)
          /\ At(mMerged, unique_key(mMerge.inc[j])).protocol = mMerge.inc[j].protocol

\* C6: after merge(merge(S, A).merged, B) the merged list holds exactly the
\* keys of S, A and B, each once.
C6_KeyStable ==
    (mDone /\ mRound = 2) =>
        /\ Keys(mMerged) = mKeys
        /\ Len(mMerged) = Cardinality(mKeys)

C6_Witness ==
    /\ mDone
    /\ mRound = 2
    /\ Cardinality(mKeys) = 3
    /\ Keys(mExisting) # mKeys
    /\ Keys(mMerge.inc) # mKeys

\* C7 as stated: for every existing collection S, merge(S, []) returns S
\* with added = 0 and updated = 0.
C7_EmptyBatchReturnsExisting ==
    (mDone /\ mMerge.inc = <<>>) =>
        /\ mMerged = mExisting
        /\ mMerge.stats.added = 0
        /\ mMerge.stats.updated = 0

\* C7 amended: for every existing collection S that repeats no uniqueKey,
\* merge(S, []) returns S (records, fields, order) with added = 0 and
\* updated = 0.
C7_EmptyBatchReturnsUniqueExisting ==
    (mDone /\ mMerge.inc = <<>> /\ UniqueKeys(mExisting)) =>
        /\ mMerged = mExisting
        /\ mMerge.stats.added = 0
        /\ mMerge.stats.updated = 0

C7_Witness ==
    /\ mDone
    /\ mMerge.inc = <<>>
    /\ Len(mExisting) = 2
    /\ UniqueKeys(mExisting)
    /\ mMerged = mExisting

\* C27: during one merge pass the country lookup is called at most once per
\* distinct IP of the incoming records: when the merge waits for an outbound
\* lookup for a candidate, no earlier candidate of the pass has the same IP
\* (it was looked up, so the answer comes from the cache).
C27_OneLookupPerIp ==
    ~mDone => \A j \in 1..(mMerge.i - 1) : mMerge.inc[j].ip # mMerge.inc[mMerge.i].ip

\* ---------------------------------------------------------- source registry
NoTime == -1                  \* an Optional[float] timestamp that is None
DefaultSyncInterval == 180    \* sync_interval_minutes of the seeded default sources

\* ProxySource as _load_default_sources / add_source build it: enabled, zero
\* counters, due at once
NewSource(name, interval_minutes, t) ==
    [name |-> name, enabled |-> TRUE, success_count |-> 0, fail_count |-> 0,
     last_sync |-> NoTime, last_proxy_count |-> 0,
     sync_interval_minutes |-> interval_minutes, next_sync_timestamp |-> t]

\* position of a name in the ordered dict self.sources (0: not in it)
SourceIndex(srcs, name) ==
    IF \E j \in 1..Len(srcs) : srcs[j].name = name
    THEN CHOOSE j \in 1..Len(srcs) : srcs[j].name = name
    ELSE 0

SourceNames == {"srcA", "srcB"}

\* the registry _load_default_sources seeds on first run (two of its five
\* sources, all enabled, 180 minutes, due at once)
DefaultSources ==
    <<NewSource("srcA", DefaultSyncInterval, 0), NewSource("srcB", DefaultSyncInterval, 0)>>

remove_source(srcs, name) == SelectSeq(srcs, LAMBDA x : x.name # name)

enable_source_KeepsTimestamp(srcs, name, enabled, t) ==
    LET j == SourceIndex(srcs, name)
    IN IF j = 0 THEN srcs ELSE [srcs EXCEPT ![j].enabled = enabled]

enable_source(srcs, name, enabled, t) ==
    LET j == SourceIndex(srcs, name)
    IN IF j = 0 THEN srcs
       ELSE [srcs EXCEPT ![j].enabled = enabled,
                         ![j].next_sync_timestamp =
                             IF enabled THEN t ELSE srcs[j].next_sync_timestamp]

update_source_stats_RescheduleOnSuccess(srcs, name, success, proxy_count, t) ==
    LET j == SourceIndex(srcs, name)
    IN IF j = 0 THEN srcs
       ELSE [srcs EXCEPT
               ![j].success_count = IF success THEN @ + 1 ELSE @,
               ![j].last_proxy_count = IF success THEN proxy_count ELSE @,
               ![j].fail_count = IF success THEN @ ELSE @ + 1,
               ![j].last_sync = t,
               ![j].next_sync_timestamp =
                   IF success THEN t + srcs[j].sync_interval_minutes * 60 ELSE @]

update_source_stats_EverySource(srcs, name, success, proxy_count, t) ==
    LET j == SourceIndex(srcs, name)
    IN IF j = 0 THEN srcs
       ELSE [i \in 1..Len(srcs) |->
               [srcs[i] EXCEPT
                  !.success_count = IF success /\ i = j THEN @ + 1 ELSE @,
                  !.last_proxy_count = IF success /\ i = j THEN proxy_count ELSE @,
                  !.fail_count = IF success THEN @ ELSE @ + 1,
                  !.last_sync = IF i = j THEN t ELSE @,
                  !.next_sync_timestamp =
                      IF i = j THEN t + srcs[j].sync_interval_minutes * 60 ELSE @]]

update_source_stats(srcs, name, success, proxy_count, t) ==
    LET j == SourceIndex(srcs, name)
    IN IF j = 0 THEN srcs
       ELSE [srcs EXCEPT
               ![j].success_count = IF success THEN @ + 1 ELSE @,
               ![j].last_proxy_count = IF success THEN proxy_count ELSE @,
               ![j].fail_count = IF success THEN @ ELSE @ + 1,
               ![j].last_sync = t,
               ![j].next_sync_timestamp = t + srcs[j].sync_interval_minutes * 60]

IsDue(x, t) ==
    x.enabled /\ (x.next_sync_timestamp = NoTime \/ x.next_sync_timestamp <= t)

\* get_due_sources, as the names in registry order
get_due_sources(srcs, t) ==
    LET due == SelectSeq(srcs, LAMBDA x : IsDue(x, t))
    IN [i \in 1..Len(due) |-> due[i].name]

get_enabled_sources(srcs) == SelectSeq(srcs, LAMBDA x : x.enabled)

\* ProxySource.to_dict: a copy of the fields
to_dict(x) == [f \in DOMAIN x |-> x[f]]

_save_sources_EnabledOnly(srcs) ==
    LET on == SelectSeq(srcs, LAMBDA x : x.enabled)
    IN [i \in 1..Len(on) |-> to_dict(on[i])]

\* what _save_sources dumps when the write succeeds: the dicts of the sources
\* in registry order
_save_sources(srcs) == [i \in 1..Len(srcs) |-> to_dict(srcs[i])]

\* ------------------------------------------------------------ sync of a source
\* the port of the node that only this source lists
SourcePort(name) == IF name = "srcA" THEN 8388 ELSE 8389

\* what parse_proxies can return for the content of a source: a list of
\* records, possibly empty
ParsedBatches(name) ==
    {<<>>,
     <<ParsedInfo(ProxyData("1.1.1.1", 443, "New", "trojan-fields"), "trojan", name),
       ParsedInfo(ProxyData("1.1.1.1", SourcePort(name), "", "ss-fields"), "ss", name)>>}

Asleep == [NewTask EXCEPT !.pc = "sleep"]
Dying == [NewTask EXCEPT !.pc = "dying"]
Ended == [NewTask EXCEPT !.pc = "done"]

ActivePcs == {"new", "fetch", "lookup", "notify", "sleep"}

\* the scheduler's dispatch on sync_result['success']: the success report, or
\* the failure message of the else branch
NoticeFor(result, name) ==
    [source |-> name, kind |-> IF result = "ok" THEN "report" ELSE "failed"]

\* the scheduler has the outcome of sync_callback(due[idx]) and awaits the
\* notification it sends for it
Notify(task, result) ==
    [task EXCEPT !.pc = "notify", !.result = result,
                 !.sent = Append(@, NoticeFor(result, task.due[task.idx])),
                 !.existing = <<>>, !.ms = NoMerge]

\* _sync_single_source from its start to its first await, called by the
\* loop for due[i]: W is [task, sources, store]
SyncBegin(task, i, srcs, st, t) ==
    LET name == task.due[i]
        j == SourceIndex(srcs, name)
        tk == [task EXCEPT !.idx = i]
    IN IF j = 0 \/ ~srcs[j].enabled
       THEN [task |-> Notify(tk, "fail"),
             sources |-> update_source_stats(srcs, name, FALSE, 0, t), store |-> st]
       ELSE [task |-> [tk EXCEPT !.pc = "fetch", !.existing = LoadExisting(st),
                                 !.result = NONE],
             sources |-> srcs, store |-> st]

\* the merge of the sync has finished: write the store, record the success
SyncFinish(task, ms, srcs, t) ==
    [task |-> Notify(task, "ok"),
     sources |-> update_source_stats(srcs, task.due[task.idx], TRUE, Len(ms.inc), t),
     store |-> SaveList(ms.map)]

\* the sync goes on from a merge state until the merge suspends or ends
SyncMerge(task, ms, srcs, st, t) ==
    IF MergeDone(ms) THEN SyncFinish(task, ms, srcs, t)
    ELSE [task |-> [task EXCEPT !.pc = "lookup", !.ms = ms], sources |-> srcs, store |-> st]

\* how the await of fetch_from_url can end for the sync: the fetch returns
\* nothing ("none"), it raises ("error": the sync's own except Exception
\* records the failure and returns it), or content comes back and is parsed
FetchOutcomes(name) ==
    {[kind |-> "none", batch |-> <<>>], [kind |-> "error", batch |-> <<>>]}
        \cup {[kind |-> "content", batch |-> b] : b \in ParsedBatches(name)}

\* _sync_single_source after fetch_from_url returned
SyncFetched(task, outcome, srcs, st, cch, t) ==
    LET name == task.due[task.idx]
    IN IF outcome.kind \in {"none", "error"} \/ outcome.batch = <<>>
       THEN [task |-> Notify(task, "fail"),
             sources |-> update_source_stats(srcs, name, FALSE, 0, t), store |-> st]
       ELSE SyncMerge(task, MergeRun(MergeStart(task.existing, outcome.batch), cch),
                      srcs, st, t)

\* _run_loop from "while self.is_running" to its next await
Poll(task, running, srcs, st, t) ==
    IF ~running THEN [task |-> Ended, sources |-> srcs, store |-> st]
    ELSE LET due == get_due_sources(srcs, t)
         IN IF due = <<>>
            THEN [task |-> Asleep, sources |-> srcs, store |-> st]
            ELSE SyncBegin([NewTask EXCEPT !.due = due], 1, srcs, st, t)

AfterNotify_FailureEndsPass(task, srcs, st, t) ==
    IF task.idx < Len(task.due) /\ task.result = "ok"
    THEN SyncBegin(task, task.idx + 1, srcs, st, t)
    ELSE [task |-> Asleep, sources |-> srcs, store |-> st]

AfterNotify_FailureEndsLoop(task, srcs, st, t) ==
    IF task.result # "ok" THEN [task |-> Ended, sources |-> srcs, store |-> st]
    ELSE IF task.idx < Len(task.due)
    THEN SyncBegin(task, task.idx + 1, srcs, st, t)
    ELSE [task |-> Asleep, sources |-> srcs, store |-> st]

\* the for loop after a notification was sent: next due source, or the sleep
AfterNotify(task, srcs, st, t) ==
    IF task.idx < Len(task.due)
    THEN SyncBegin(task, task.idx + 1, srcs, st, t)
    ELSE [task |-> Asleep, sources |-> srcs, store |-> st]

Cancelled_Ignored(task) == task

\* task.cancel(): CancelledError is raised at the await the task is suspended
\* at. No "except Exception" catches it; inside the try block the loop's
\* "except asyncio.CancelledError: break" does, and finally sleeps before
\* the break takes effect; in the sleep of finally it ends the task
Cancelled(task) ==
    IF task.pc \in {"fetch", "lookup", "notify"}
    THEN Dying
    ELSE IF task.pc \in {"new", "sleep"} THEN Ended
    ELSE task

\* ------------------------------------------------------------------ actions
Init ==
    /\ mExisting = <<>> /\ mMerge = NoMerge /\ mRound = 1 /\ mKeys = {}
    /\ cache = EmptyCache
    /\ now = 0
    /\ sources = DefaultSources
    /\ saved = _save_sources(DefaultSources) /\ rop = NoOp
    /\ store = <<ProxyData("1.1.1.1", 443, "Old", "stored")>>
    /\ manual = NoManual /\ kept = {"1.1.1.1:443"}
    /\ pin = <<>> /\ pout = NoOut
    /\ source_manager = SameManager
    /\ is_running = FALSE
    /\ scheduler_task = 0
    /\ tasks = <<>>

\* time passes
Tick ==
    /\ now < MaxTicks * DefaultSyncInterval * 60
    /\ now' = now + DefaultSyncInterval * 60
    /\ UNCHANGED <<mvars, cache, sources, store, is_running, scheduler_task, tasks, rvars, xvars, pvars, hvars>>

\* start_auto_sync -> start_scheduler
StartScheduler ==
    /\ get_enabled_sources(sources) # <<>>
    /\ Len(tasks) < MaxTasks
    /\ IF is_running
       THEN UNCHANGED <<is_running, scheduler_task, tasks>>
       ELSE /\ is_running' = TRUE
            /\ tasks' = Append(tasks, NewTask)
            /\ scheduler_task' = Len(tasks) + 1
    /\ UNCHANGED <<mvars, cache, now, sources, store, rvars, xvars, pvars, hvars>>

\* stop_auto_sync -> stop_scheduler
StopScheduler ==
    /\ IF ~is_running
       THEN UNCHANGED <<is_running, scheduler_task, tasks>>
       ELSE /\ is_running' = FALSE
            /\ tasks' = IF scheduler_task # 0
                        THEN [tasks EXCEPT ![scheduler_task] = Cancelled(@)]
                        ELSE tasks
            /\ scheduler_task' = 0
    /\ UNCHANGED <<mvars, cache, now, sources, store, rvars, xvars, pvars, hvars>>

\* handle_toggle_source
ToggleSource ==
    /\ \E j \in 1..Len(sources) :
          sources' = enable_source(sources, sources[j].name, ~sources[j].enabled, now)
    /\ saved' = _save_sources(sources')
    /\ UNCHANGED <<mvars, cache, now, store, is_running, scheduler_task, tasks, rop, xvars, pvars, hvars>>

\* handle_confirm_delete_source
RemoveSource ==
    /\ \E name \in SourceNames :
          /\ sources' = remove_source(sources, name)
          /\ saved' = IF SourceIndex(sources, name) # 0 THEN _save_sources(sources') ELSE saved
    /\ UNCHANGED <<mvars, cache, now, store, is_running, scheduler_task, tasks, rop, xvars, pvars, hvars>>

\* the registry file follows the registry: update_source_stats, the only
\* way a sync changes the registry, saves it
Apply(t, W) ==
    /\ tasks' = [tasks EXCEPT ![t] = W.task]
    /\ sources' = W.sources
    /\ saved' = IF W.sources # sources THEN _save_sources(W.sources) ELSE saved
    /\ store' = W.store
    /\ kept' = kept \cup Keys(LoadExisting(W.store))
    /\ rop' = rop

\* a loop task runs for the first time, or wakes from the poll sleep
LoopPoll(t) ==
    /\ t <= Len(tasks)
    /\ tasks[t].pc \in {"new", "sleep"}
    /\ \A j \in 1..Len(sources) :
          IsDue(sources[j], now) => sources[j].success_count + sources[j].fail_count < MaxCount
    /\ Apply(t, Poll(tasks[t], is_running, sources, store, now))
    /\ UNCHANGED <<mvars, cache, now, is_running, scheduler_task, manual, pvars, hvars>>

\* fetch_from_url returns to the sync the loop is running
LoopFetchReturn(t) ==
    /\ t <= Len(tasks)
    /\ tasks[t].pc = "fetch"
    /\ \E outcome \in FetchOutcomes(tasks[t].due[tasks[t].idx]) :
          Apply(t, SyncFetched(tasks[t], outcome, sources, store, cache, now))
    /\ UNCHANGED <<mvars, cache, now, is_running, scheduler_task, manual, pvars, hvars>>

\* the country lookup the sync's merge waits for returns
LoopLookupReturn(t) ==
    /\ t <= Len(tasks)
    /\ tasks[t].pc = "lookup"
    /\ \E r \in LookupResults :
          LET ms == tasks[t].ms
          IN /\ cache' = CacheAfter(cache, ms.inc[ms.i].ip, r)
             /\ Apply(t, SyncMerge(tasks[t], MergeResume(ms, cache, r), sources, store, now))
    /\ UNCHANGED <<mvars, now, is_running, scheduler_task, manual, pvars, hvars>>

\* admin_send_callback returns
LoopNotifyReturn(t) ==
    /\ t <= Len(tasks)
    /\ tasks[t].pc = "notify"
    /\ Apply(t, AfterNotify(tasks[t], sources, store, now))
    /\ UNCHANGED <<mvars, cache, now, is_running, scheduler_task, manual, pvars, hvars>>

\* the sleep in finally of a cancelled loop ends: the break takes effect
LoopExit(t) ==
    /\ t <= Len(tasks)
    /\ tasks[t].pc = "dying"
    /\ tasks' = [tasks EXCEPT ![t] = Ended]
    /\ UNCHANGED <<mvars, cache, now, sources, store, is_running, scheduler_task, rvars, xvars, pvars, hvars>>

Next ==
    \/ Tick
    \/ StartScheduler
    \/ StopScheduler
    \/ ToggleSource
    \/ RemoveSource
    \/ \E t \in 1..MaxTasks : LoopPoll(t)
    \/ \E t \in 1..MaxTasks : LoopFetchReturn(t)
    \/ \E t \in 1..MaxTasks : LoopLookupReturn(t)
    \/ \E t \in 1..MaxTasks : LoopNotifyReturn(t)
    \/ \E t \in 1..MaxTasks : LoopExit(t)

Spec == Init /\ [][Next]_vars

\* ------------------------------------------------------------------ the parser
\* A text is a sequence of atoms; the string it stands for is their
\* concatenation. "vle" and "vme" followed by "ss://" spell vless:// and
\* vmess://, so the string ss:// occurs inside both. "w" is a run of word
\* characters, " " a blank, "\n" a line break, "proxies:" the YAML marker;
\* a P-atom is the payload of a URL: a run of word characters that the
\* decoder of its protocol accepts ("Pss" is base64 of method:password@host:port,
\* "Pvmess" base64 of the vmess JSON, ...), and "Pbad" a payload on which the
\* body of a decoder raises (base64 that does not decode)
SchemeAtoms == {"ss://", "ssr://", "trojan://", "hy2://", "hysteria2://"}

Payloads == {"Pss", "Pssr", "Pvmess", "Pvless", "Ptrojan", "Phy2", "Pbad"}

\* a remainder that is well formed for the decoder of the prefix before it,
\* with server 1.1.1.1 and this text where the port stands
PortTexts == {"0", "1", "65535", "65536", "-1", "x"}

\* atoms whose last character is a word character (\w)
WordAtoms == {"vle", "vme", "w"} \cup Payloads \cup PortTexts

Blanks == {" ", "\n"}

TextAtoms == {"vle", "vme", "w", " ", "proxies:"} \cup SchemeAtoms

\* the prefixes as atom sequences
Prefix(proto) ==
    CASE proto = "vless" -> <<"vle", "ss://">>
      [] proto = "vmess" -> <<"vme", "ss://">>
      [] proto = "trojan" -> <<"trojan://">>
      [] proto = "ssr" -> <<"ssr://">>
      [] proto = "ss" -> <<"ss://">>
      [] proto = "hy2" -> <<"hy2://">>
      [] proto = "hysteria2" -> <<"hysteria2://">>

\* the string pre occurs in text at atom i
HasAt(text, i, pre) ==
    /\ i >= 1
    /\ i + Len(pre) - 1 <= Len(text)
    /\ \A k \in 1..Len(pre) : text[i + k - 1] = pre[k]

startswith(text, proto) == HasAt(text, 1, Prefix(proto))

\* str.strip()
strip(text) ==
    LET solid == {i \in 1..Len(text) : text[i] \notin Blanks}
    IN IF solid = {} THEN <<>>
       ELSE SubSeq(text, CHOOSE i \in solid : \A j \in solid : i <= j,
                         CHOOSE i \in solid : \A j \in solid : i >= j)

\* try_base64_decode on a text that is not the base64 encoding of a protocol
\* text: every decoding attempt fails or gives something without a protocol
\* identifier, and the stripped original comes back
try_base64_decode(content) == strip(content)

\* \b in front of atom i: the start of the text, or a non-word character before
WordBoundary(text, i) == i = 1 \/ text[i - 1] \notin WordAtoms

\* len(re.finditer(r'\b<scheme>', text))
re_count(text, proto) ==
    Cardinality({i \in 1..Len(text) : WordBoundary(text, i) /\ HasAt(text, i, Prefix(proto))})

protocol_counts(text) ==
    [vless |-> re_count(text, "vless"),
     vmess |-> re_count(text, "vmess"),
     trojan |-> re_count(text, "trojan"),
     ssr |-> re_count(text, "ssr"),
     ss |-> re_count(text, "ss")
              - (re_count(text, "vless") + re_count(text, "vmess") + re_count(text, "ssr")),
     hy2 |-> re_count(text, "hy2") + re_count(text, "hysteria2")]

priority_order == <<"vless", "vmess", "trojan", "ssr", "ss", "hy2">>

\* the YAML test; of its three markers the texts only ever hold 'proxies:'
LooksYaml(text) == "proxies:" \in Range(text)

detect_protocol(content) ==
    LET c == strip(try_base64_decode(content))
        counts == protocol_counts(c)
        hits == {k \in 1..Len(priority_order) : counts[priority_order[k]] > 0}
    IN IF startswith(c, "vless") THEN "vless"
       ELSE IF startswith(c, "vmess") THEN "vmess"
       ELSE IF startswith(c, "trojan") THEN "trojan"
       ELSE IF startswith(c, "hy2") \/ startswith(c, "hysteria2") THEN "hy2"
       ELSE IF startswith(c, "ssr") THEN "ssr"
       ELSE IF startswith(c, "ss") THEN "ss"
       ELSE IF LooksYaml(c) THEN "yaml"
       ELSE IF hits # {} THEN priority_order[CHOOSE k \in hits : \A j \in hits : k <= j]
       ELSE "unknown"

\* the places where the lookahead of _smart_split_protocols matches: in
\* front of every atom at which one of its seven prefixes starts
SplitProtocols == {"vless", "vmess", "ss", "ssr", "trojan", "hy2", "hysteria2"}

SplitPoints(text) ==
    {i \in 1..Len(text) : \E proto \in SplitProtocols : HasAt(text, i, Prefix(proto))}

\* re.split at the split points: the pieces between them
RECURSIVE PiecesFrom(_, _, _)
PiecesFrom(text, from, pts) ==
    IF from > Len(text) THEN <<>>
    ELSE LET later == {i \in pts : i > from}
             upto == IF later = {} THEN Len(text)
                     ELSE (CHOOSE i \in later : \A j \in later : i <= j) - 1
         IN <<SubSeq(text, from, upto)>> \o PiecesFrom(text, upto + 1, pts)

NonEmpty(parts) == SelectSeq([i \in 1..Len(parts) |-> strip(parts[i])], LAMBDA x : x # <<>>)

_smart_split_protocols(content) == NonEmpty(PiecesFrom(content, 1, SplitPoints(content)))

\* ------------------------------------------------------------- the decoders
Decoders == {"ss", "ssr", "vmess", "vless", "trojan", "hy2"}

PayloadOf(dec) ==
    CASE dec = "ss" -> "Pss" [] dec = "ssr" -> "Pssr" [] dec = "vmess" -> "Pvmess"
      [] dec = "vless" -> "Pvless" [] dec = "trojan" -> "Ptrojan" [] dec = "hy2" -> "Phy2"

\* the port its payload names
PortOf(dec) ==
    CASE dec = "ss" -> 8388 [] dec = "ssr" -> 8389 [] dec = "vmess" -> 443
      [] dec = "vless" -> 8443 [] dec = "trojan" -> 2053 [] dec = "hy2" -> 2083

NoData == ProxyData("", 0, "", "")

\* the startswith test at the head of each decoder; parse_hy2_url takes
\* hysteria2:// and hy2://
OwnPrefixLen(dec, line) ==
    IF dec = "hy2"
    THEN IF startswith(line, "hysteria2") \/ startswith(line, "hy2") THEN 1 ELSE 0
    ELSE IF startswith(line, dec) THEN Len(Prefix(dec)) ELSE 0

\* int(port_str); "x" is the text int() raises ValueError on
IntOf(text) ==
    CASE text = "0" -> 0 [] text = "1" -> 1 [] text = "65535" -> 65535
      [] text = "65536" -> 65536 [] text = "-1" -> -1 [] text = "8388" -> 8388
      [] text = "443" -> 443 [] text = "8443" -> 8443 [] OTHER -> 0

MaxPort == 65535

\* what a decoder makes of the port text. parse_trojan_url and parse_hy2_url
\* read urlparse(url).port, which raises ValueError unless the text is made
\* of digits and at most 65535, and turn a port of 0 away in "not all([...])";
\* the four others call int() and return None on its ValueError
PortOutcome(dec, text) ==
    LET rec == [kind |-> "rec",
                data |-> ProxyData("1.1.1.1", IntOf(text), "node", dec \o "-fields")]
    IN IF dec \in {"trojan", "hy2"}
       THEN IF text \in {"x", "-1"} \/ IntOf(text) > MaxPort
            THEN [kind |-> "raise", data |-> NoData]
            ELSE IF IntOf(text) = 0 THEN [kind |-> "none", data |-> NoData] ELSE rec
       ELSE IF text = "x" THEN [kind |-> "none", data |-> NoData] ELSE rec

\* ss:// bodies spelled out. "Uss" is the base64 text of "aes-256-gcm:pass"
\* (YWVzLTI1Ni1nY206cGFzcw==), "Lss" the base64 text of
\* "aes-256-gcm:pass@1.2.3.4:8388"; both end in padding
Base64Atoms == {"Uss", "Lss"}

Base64Text(atom) ==
    IF atom = "Uss" THEN <<"aes-256-gcm", ":", "pass">>
    ELSE <<"aes-256-gcm", ":", "pass", "@", "1.2.3.4", ":", "8388">>

\* base64.b64decode(ss_content + '==').decode('utf-8'): the decoder reads up
\* to the padding that ends the base64 text and discards what follows it
b64decode(content) ==
    IF content # <<>> /\ Head(content) \in Base64Atoms
    THEN [ok |-> TRUE, text |-> Base64Text(Head(content))]
    ELSE [ok |-> FALSE, text |-> <<>>]

\* the first and the last position of an atom in a text, 0 if it is absent
FirstOf(text, atom) ==
    LET at == {i \in 1..Len(text) : text[i] = atom}
    IN IF at = {} THEN 0 ELSE CHOOSE i \in at : \A j \in at : i <= j

LastOf(text, atom) ==
    LET at == {i \in 1..Len(text) : text[i] = atom}
    IN IF at = {} THEN 0 ELSE CHOOSE i \in at : \A j \in at : j <= i

\* the text as one string
RECURSIVE Flat(_)
Flat(text) == IF text = <<>> THEN "" ELSE Head(text) \o Flat(Tail(text))

\* parse_ss_url after its prefix test, on a body made of these atoms: the
\* fragment is the name (left as it is by _clean_vip_chars when it holds no
\* VIP and no separator at its ends), the rest is base64-decoded as a whole
\* and read as method:password@server:port
parse_ss_content(content) ==
    LET hash == FirstOf(content, "#")
        body == IF hash = 0 THEN content ELSE SubSeq(content, 1, hash - 1)
        name == IF hash = 0 THEN "SS" ELSE Flat(SubSeq(content, hash + 1, Len(content)))
        decoded == b64decode(body)
        at == FirstOf(decoded.text, "@")
        method_password == SubSeq(decoded.text, 1, at - 1)
        server_port == SubSeq(decoded.text, at + 1, Len(decoded.text))
        c1 == FirstOf(method_password, ":")
        c2 == LastOf(server_port, ":")
        port_str == Flat(SubSeq(server_port, c2 + 1, Len(server_port)))
        none == [kind |-> "none", data |-> NoData]
    IN IF ~decoded.ok THEN none
       ELSE IF at = 0 THEN none
       ELSE IF c1 = 0 THEN none
       ELSE IF c2 = 0 THEN none
       ELSE IF port_str \notin PortTexts \cup {"8388"} \/ port_str = "x" THEN none
       ELSE [kind |-> "rec",
             data |-> ProxyData(Flat(SubSeq(server_port, 1, c2 - 1)), IntOf(port_str), name,
                                Flat(SubSeq(method_password, 1, c1 - 1)) \o ":"
                                    \o Flat(SubSeq(method_password, c1 + 1,
                                                   Len(method_password))))]

\* the body of parse_<dec>_url inside its try: a dict, None, or an exception
DecoderBody(dec, line) ==
    LET n == OwnPrefixLen(dec, line)
        rest == SubSeq(line, n + 1, Len(line))
    IN IF n = 0 THEN [kind |-> "none", data |-> NoData]
       ELSE IF rest = <<PayloadOf(dec)>>
       THEN [kind |-> "rec",
             data |-> ProxyData("1.1.1.1", PortOf(dec), "node", dec \o "-fields")]
       ELSE IF Len(rest) = 1 /\ rest[1] \in PortTexts THEN PortOutcome(dec, rest[1])
       ELSE IF dec = "ss" /\ rest # <<>> /\ rest[1] \in Base64Atoms THEN parse_ss_content(rest)
       ELSE IF rest # <<>> /\ rest[1] = "Pbad" THEN [kind |-> "raise", data |-> NoData]
       ELSE [kind |-> "none", data |-> NoData]

parse_url_Unguarded(dec, line) == DecoderBody(dec, line)

\* parse_<dec>_url: "except Exception" around the body returns None
parse_url(dec, line) ==
    LET o == DecoderBody(dec, line)
    IN IF o.kind = "raise" THEN [kind |-> "none", data |-> NoData] ELSE o

\* ------------------------------------------------------ parse_mixed_content
\* str.split('\n')
RECURSIVE SplitLines(_, _)
SplitLines(text, from) ==
    LET breaks == {i \in from..Len(text) : text[i] = "\n"}
    IN IF breaks = {} THEN <<SubSeq(text, from, Len(text))>>
       ELSE LET m == CHOOSE i \in breaks : \A j \in breaks : i <= j
            IN <<SubSeq(text, from, m - 1)>> \o SplitLines(text, m + 1)

\* one pass of the for loop: what the line adds to proxies; "raise" when an
\* exception leaves the pass
LinePass(line, source_name) ==
    LET l == strip(line)
        protocol == detect_protocol(l)
        o == IF protocol \in Decoders THEN parse_url(protocol, l)
             ELSE [kind |-> "none", data |-> NoData]
    IN IF l = <<>> THEN [kind |-> "ok", recs |-> <<>>]
       ELSE IF o.kind = "rec" /\ Truthy(o.data.server) /\ o.data.port # 0
       THEN [kind |-> "ok", recs |-> <<ParsedInfo(o.data, protocol, source_name)>>]
       ELSE [kind |-> "ok", recs |-> <<>>]

RECURSIVE parse_lines_StopAtFailure(_, _)
parse_lines_StopAtFailure(lines, source_name) ==
    IF lines = <<>> THEN <<>>
    ELSE LET first == LinePass(lines[1], source_name).recs
         IN IF first = <<>> THEN <<>>
            ELSE first \o parse_lines_StopAtFailure(Tail(lines), source_name)

\* the for loop over the candidate lines
RECURSIVE parse_lines(_, _)
parse_lines(lines, source_name) ==
    IF lines = <<>> THEN <<>>
    ELSE LinePass(lines[1], source_name).recs \o parse_lines(Tail(lines), source_name)

\* the entries of a YAML proxy list, one atom each: two valid mappings, a
\* scalar, a mapping without server, one without port, and one whose port is
\* the string "abc"
YamlEntries == {"Ytrojan", "Yss", "Yscalar", "Ynoserver", "Ynoport", "Ybadport"}

\* what yaml.safe_load makes of an entry; server "" and port "" stand for a
\* key that is missing
YamlValue(atom) ==
    CASE atom = "Ytrojan" ->
           [mapping |-> TRUE, server |-> "1.1.1.1", port |-> "443", type |-> "trojan"]
      [] atom = "Yss" ->
           [mapping |-> TRUE, server |-> "2.2.2.2", port |-> "8443", type |-> "ss"]
      [] atom = "Yscalar" ->
           [mapping |-> FALSE, server |-> "", port |-> "", type |-> ""]
      [] atom = "Ynoserver" ->
           [mapping |-> TRUE, server |-> "", port |-> "443", type |-> "ss"]
      [] atom = "Ynoport" ->
           [mapping |-> TRUE, server |-> "1.1.1.1", port |-> "", type |-> "ss"]
      [] atom = "Ybadport" ->
           [mapping |-> TRUE, server |-> "1.1.1.1", port |-> "abc", type |-> "ss"]

IntTexts == {"0", "1", "65535", "65536", "-1", "8388", "443", "8443"}

\* the for loop of parse_yaml_content over the loaded list: the records so
\* far, or "raise" when int(port) raises
RECURSIVE YamlLoop(_, _, _)
YamlLoop(entries, source_name, proxies) ==
    IF entries = <<>> THEN [kind |-> "ok", recs |-> proxies]
    ELSE LET d == YamlValue(Head(entries))
         IN IF ~d.mapping THEN YamlLoop(Tail(entries), source_name, proxies)
            ELSE IF d.server = "" \/ d.port = ""
            THEN YamlLoop(Tail(entries), source_name, proxies)
            ELSE IF d.port \notin IntTexts THEN [kind |-> "raise", recs |-> <<>>]
            ELSE YamlLoop(Tail(entries), source_name,
                          Append(proxies,
                                 ParsedInfo(ProxyData(d.server, IntOf(d.port), "node",
                                                      "yaml-fields"),
                                            d.type, source_name)))

\* parse_yaml_content: the text is a YAML proxy list when, after its
\* "proxies:" line, every line is an entry; yaml.safe_load then gives the
\* list of the entries. For any other text of these atoms it gives no list
\* or raises. "except Exception" around the whole body returns []
parse_yaml_content(content, source_name) ==
    LET lines == SplitLines(strip(content), 1)
        entries == [i \in 1..(Len(lines) - 1) |-> lines[i + 1][1]]
        isList == /\ Len(lines) >= 2 /\ lines[1] = <<"proxies:">>
                  /\ \A i \in 2..Len(lines) :
                         Len(lines[i]) = 1 /\ lines[i][1] \in YamlEntries
        o == YamlLoop(entries, source_name, <<>>)
    IN IF isList /\ o.kind = "ok" THEN o.recs ELSE <<>>

CandidateLines(decoded) ==
    LET lines == SplitLines(strip(decoded), 1)
    IN IF Len(lines) = 1 /\ lines[1] # <<>> THEN _smart_split_protocols(lines[1]) ELSE lines

parse_mixed_content(content, source_name) ==
    LET decoded == try_base64_decode(content)
    IN IF detect_protocol(decoded) = "yaml" THEN parse_yaml_content(decoded, source_name)
       ELSE parse_lines(CandidateLines(decoded), source_name)

\* ProxyParser.parse_proxies
parse_proxies(content, source_name) == parse_mixed_content(content, source_name)

\* ---------------------------------------------------------- display names
\* a name is a sequence of characters
vip_patterns ==
    <<<<"V", "I", "P">>, <<"v", "i", "p">>, <<"V", "i", "p">>, <<"V", "i", "P">>,
      <<"v", "I", "p">>, <<"v", "i", "P">>, <<"v", "I", "P">>, <<"V", "I", "p">>>>

Separators == {" ", "-", "_", "|"}

\* str.replace(pattern, ''): the occurrences found from left to right, none
\* overlapping another, are taken out
RECURSIVE replace(_, _)
replace(name, pattern) ==
    IF name = <<>> THEN <<>>
    ELSE IF HasAt(name, 1, pattern)
    THEN replace(SubSeq(name, Len(pattern) + 1, Len(name)), pattern)
    ELSE <<Head(name)>> \o replace(Tail(name), pattern)

\* the for loop: one replace after the other, in the order of the list
RECURSIVE replace_all(_, _)
replace_all(name, k) ==
    IF k > Len(vip_patterns) THEN name
    ELSE replace_all(replace(name, vip_patterns[k]), k + 1)

\* str.strip(' -_|')
strip_chars(name) ==
    LET keep == {i \in 1..Len(name) : name[i] \notin Separators}
    IN IF keep = {} THEN <<>>
       ELSE SubSeq(name, CHOOSE i \in keep : \A j \in keep : i <= j,
                         CHOOSE i \in keep : \A j \in keep : j <= i)

_clean_vip_chars(name) ==
    LET cleaned_name == strip_chars(replace_all(name, 1))
    IN IF name = <<>> THEN name
       ELSE IF cleaned_name # <<>> THEN cleaned_name ELSE name

\* the default name a decoder falls back on, free of VIP and of separators
DefaultName == <<"n">>

\* the name in the dict a decoder returns for a URL whose fragment (remarks,
\* ps) is the given name
DisplayName(dec, name) ==
    _clean_vip_chars(IF name = <<>> /\ dec \in {"trojan", "hy2"} THEN DefaultName ELSE name)

\* ------------------------------------------------------------ parser inputs
MaxAtoms == 3
MaxLines == 3

UrlLine(dec) == Prefix(dec) \o <<PayloadOf(dec)>>

BadUrlLine(dec) == Prefix(dec) \o <<"Pbad">>

\* lines no decoder turns into a record
MalformedLines ==
    {<<"w">>, <<"trojan://">>, BadUrlLine("ss"), BadUrlLine("vmess"), <<"w", " ", "proxies:">>}

BatchLines == {UrlLine("ss"), UrlLine("vless"), UrlLine("trojan")} \cup MalformedLines

RECURSIVE JoinLines(_)
JoinLines(lines) ==
    IF Len(lines) = 1 THEN lines[1]
    ELSE lines[1] \o <<"\n">> \o JoinLines(Tail(lines))

Batches == {JoinLines(ls) : ls \in UNION {[1..k -> BatchLines] : k \in 2..MaxLines}}

\* scenario 3: three URLs one after the other with nothing between them
Blob3 == UrlLine("vmess") \o UrlLine("vless") \o UrlLine("ss")

\* texts that do not begin with a prefix and hold several schemes
MixedTexts ==
    {<<"w", " ", "hy2://", "w", " ", "hy2://", "w", " ", "ss://", "w">>,
     <<"w", " ", "trojan://", "w", " ", "ss://", "w", " ", "ss://", "w">>,
     <<"w", " ", "ss://", "w", " ", "vme", "ss://", "w">>}

MaxName == 4

NameChars == {"V", "I", "P", "v", "-", "a"}

\* a name in which VIP stands around another VIP
NestedVip == <<"V", "V", "I", "P", "I", "P">>

NameInputs == SeqsUpTo(NameChars, MaxName) \cup {NestedVip}

PortLine(dec, text) == Prefix(dec) \o <<text>>

\* a URL with each port text, alone and in front of a second line
PortInputs ==
    UNION {{PortLine(d, t), JoinLines(<<PortLine(d, t), UrlLine("trojan")>>)} :
              d \in Decoders, t \in PortTexts}

\* scenario 1: ss://YWVzLTI1Ni1nY206cGFzcw==@1.2.3.4:8388#MyNode
SsScenario1 == <<"ss://", "Uss", "@", "1.2.3.4", ":", "8388", "#", "MyNode">>

\* the same node with the whole of method:password@server:port in base64
SsLegacy == <<"ss://", "Lss", "#", "MyNode">>

MaxEntries == 3

\* a YAML document: the "proxies:" line, then one line per entry
YamlDoc(entries) == JoinLines(<<<<"proxies:">>>> \o [i \in 1..Len(entries) |-> <<entries[i]>>])

YamlDocs == {YamlDoc(es) : es \in UNION {[1..k -> YamlEntries] : k \in 1..MaxEntries}}

ParserInputs ==
    SeqsUpTo(TextAtoms, MaxAtoms) \cup NameInputs \cup PortInputs \cup {SsScenario1, SsLegacy}
        \cup YamlDocs
        \cup {UrlLine(d) : d \in Decoders} \cup {BadUrlLine(d) : d \in Decoders}
        \cup {<<"hysteria2://", "Phy2">>, Blob3}
        \cup MixedTexts \cup Batches

\* ----------------------------------------------------------- parser actions
InitParse ==
    /\ mExisting = <<>> /\ mMerge = NoMerge /\ mRound = 1 /\ mKeys = {}
    /\ cache = EmptyCache
    /\ now = 0 /\ sources = <<>> /\ store = <<>>
    /\ is_running = FALSE /\ scheduler_task = 0 /\ tasks = <<>>
    /\ saved = <<>> /\ rop = NoOp
    /\ manual = NoManual /\ kept = {}
    /\ pin \in ParserInputs
    /\ pout = NoOut
    /\ source_manager = SameManager

ParserCall(out) ==
    /\ pout.op = "none"
    /\ pout' = out
    /\ UNCHANGED <<mvars, cache, svars, rvars, xvars, hvars, pin>>

Detect == ParserCall([NoOut EXCEPT !.op = "detect", !.proto = detect_protocol(pin)])

Split ==
    /\ "\n" \notin Range(pin)
    /\ ParserCall([NoOut EXCEPT !.op = "split", !.parts = _smart_split_protocols(pin)])

Parse == ParserCall([NoOut EXCEPT !.op = "parse", !.recs = parse_proxies(pin, "srcA")])

Decode ==
    \E dec \in Decoders :
        LET o == parse_url(dec, pin)
        IN ParserCall([NoOut EXCEPT !.op = "decode", !.dec = dec,
                                    !.raised = (o.kind = "raise"),
                                    !.recs = IF o.kind = "rec" THEN <<o.data>> ELSE <<>>])

\* parse_<dec>_url on a well-formed URL whose name part is pin
DecodeName ==
    /\ pin \in NameInputs
    /\ \E dec \in Decoders :
           ParserCall([NoOut EXCEPT !.op = "name", !.dec = dec,
                                    !.parts = <<DisplayName(dec, pin)>>])

NextParse ==
    \/ Detect
    \/ Split
    \/ Parse
    \/ Decode
    \/ DecodeName

SpecParse == InitParse /\ [][NextParse]_vars

\* ------------------------------------------------------------ parser claims
\* how often a scheme occurs in the text: its own occurrences only, the
\* ss:// inside vless:// or vmess:// being no occurrence of ss
SchemeCount(text, proto) ==
    IF proto = "hy2" THEN re_count(text, "hy2") + re_count(text, "hysteria2")
    ELSE re_count(text, proto)

NoPrefixAtStart(text) ==
    \A proto \in SplitProtocols : ~startswith(text, proto)

\* the protocol with the highest count, the earlier in the priority order on
\* a tie; "unknown" when every count is zero
MostFrequent(text) ==
    LET n(k) == SchemeCount(text, priority_order[k])
        best == CHOOSE k \in 1..Len(priority_order) :
                    \A j \in 1..Len(priority_order) : n(k) > n(j) \/ (n(k) = n(j) /\ k <= j)
    IN IF n(best) = 0 THEN "unknown" ELSE priority_order[best]

\* C17: for a text with no scheme prefix at its start and no YAML marker,
\* detect returns the protocol that occurs most often in the text, ties
\* going to the earlier of VLESS > VMess > Trojan > SSR > SS > Hysteria2,
\* and Unknown exactly when no scheme occurs at all.
C17_DetectMostFrequent ==
    (pout.op = "detect" /\ NoPrefixAtStart(strip(pin)) /\ ~LooksYaml(strip(pin)))
        => pout.proto = MostFrequent(strip(pin))

Protocols(recs) == [i \in 1..Len(recs) |-> recs[i].protocol]

\* C18: the one-line blob of a vmess:// URL, a vless:// URL and an ss:// URL
\* with nothing between them is split into exactly three candidates, one per
\* URL, and parsed into exactly three records of the protocols VMess, VLESS
\* and SS in that order.
C18_BlobGivesThree ==
    /\ (pout.op = "split" /\ pin = Blob3)
           => pout.parts = <<UrlLine("vmess"), UrlLine("vless"), UrlLine("ss")>>
    /\ (pout.op = "parse" /\ pin = Blob3)
           => Protocols(pout.recs) = <<"vmess", "vless", "ss">>

IsBatch(text) ==
    LET ls == SplitLines(text, 1)
    IN Len(ls) >= 2 /\ \A i \in 1..Len(ls) : ls[i] \in BatchLines

\* what the lines of a batch yield one by one, in order
RECURSIVE YieldsUpTo(_, _)
YieldsUpTo(ls, n) ==
    IF n = 0 THEN <<>> ELSE YieldsUpTo(ls, n - 1) \o LinePass(ls[n], "srcA").recs

LineYields(text) == YieldsUpTo(SplitLines(text, 1), Len(SplitLines(text, 1)))

\* C19: in a newline-separated batch of proxy URL lines that detect does not
\* classify as YAML, a malformed line never aborts the batch: the records
\* returned are the in-order concatenation of what each line yields, a line
\* that fails to decode adding nothing and every later line still decoded.
C19_MalformedLineSkipped ==
    (pout.op = "parse" /\ IsBatch(pin) /\ detect_protocol(pin) # "yaml")
        => pout.recs = LineYields(pin)

\* a batch whose second line fails to decode and whose last line gave a record
C19_Witness ==
    /\ pout.op = "parse" /\ IsBatch(pin) /\ detect_protocol(pin) # "yaml"
    /\ LET ls == SplitLines(pin, 1)
       IN /\ Len(ls) = 3
          /\ ls[2] \in MalformedLines
          /\ LinePass(ls[3], "srcA").recs # <<>>
          /\ Len(pout.recs) = 2

\* C19 as first stated: for every newline-separated batch of proxy URL
\* lines the records returned are the in-order concatenation of what each
\* line yields.
C19_AnyBatch ==
    (pout.op = "parse" /\ IsBatch(pin)) => pout.recs = LineYields(pin)

\* the line starts with the decoder's own scheme prefix
HasOwnPrefix(dec, line) ==
    IF dec = "hy2" THEN HasAt(line, 1, <<"hy2://">>) \/ HasAt(line, 1, <<"hysteria2://">>)
    ELSE HasAt(line, 1, Prefix(dec))

\* C20: each of the six decoders returns failure, raising nothing, for every
\* line that does not start with its own scheme prefix, and raises no
\* exception for any input at all.
C20_DecoderRejectsQuietly ==
    pout.op = "decode"
        => /\ ~pout.raised
           /\ ~HasOwnPrefix(pout.dec, pin) => pout.recs = <<>>

\* a decoder handed a well-formed URL of another protocol
C20_Witness ==
    /\ pout.op = "decode"
    /\ ~HasOwnPrefix(pout.dec, pin)
    /\ \E d \in Decoders : pin = UrlLine(d)
    /\ pout.recs = <<>> /\ ~pout.raised

Upper(c) ==
    CASE c = "v" -> "V" [] c = "i" -> "I" [] c = "p" -> "P" [] OTHER -> c

HasVip(name) ==
    \E i \in 1..Len(name) - 2 :
        <<Upper(name[i]), Upper(name[i + 1]), Upper(name[i + 2])>> = <<"V", "I", "P">>

\* C21: for every decoder and every input name, the final display name
\* holds no "VIP" in any letter casing and neither begins nor ends with a
\* separator character (space, '-', '_', '|').
C21_NameClean ==
    pout.op = "name"
        => LET name == pout.parts[1]
           IN /\ ~HasVip(name)
              /\ name # <<>> => (Head(name) \notin Separators
                                   /\ name[Len(name)] \notin Separators)

PortInRange(port) == 1 <= port /\ port <= MaxPort

\* C22: every record the parse pipeline produces, from any of the six
\* decoders, has a port between 1 and 65535; input whose port lies outside
\* this range yields no record.
C22_PortInRange ==
    pout.op = "parse" => \A i \in 1..Len(pout.recs) : PortInRange(pout.recs[i].port)

\* C23: the SS decoder turns ss://YWVzLTI1Ni1nY206cGFzcw==@1.2.3.4:8388#MyNode
\* into the record with server "1.2.3.4", port 8388, cipher "aes-256-gcm",
\* password "pass" and name "MyNode".
C23_SsScenario ==
    (pout.op = "decode" /\ pout.dec = "ss" /\ pin = SsScenario1)
        => pout.recs = <<ProxyData("1.2.3.4", 8388, "MyNode", "aes-256-gcm:pass")>>

\* the decoder does give that record when the whole body is in base64
SsLegacyDecoded ==
    (pout.op = "decode" /\ pout.dec = "ss" /\ pin = SsLegacy)
        => pout.recs = <<ProxyData("1.2.3.4", 8388, "MyNode", "aes-256-gcm:pass")>>

IsYamlDoc(text) ==
    LET lines == SplitLines(text, 1)
    IN /\ Len(lines) >= 2 /\ lines[1] = <<"proxies:">>
       /\ \A i \in 2..Len(lines) : Len(lines[i]) = 1 /\ lines[i][1] \in YamlEntries

ValidEntry(atom) == atom \in {"Ytrojan", "Yss"}

\* the protocols of the valid entries of a document, in order
ValidProtocols(text) ==
    LET lines == SplitLines(text, 1)
        atoms == [i \in 1..(Len(lines) - 1) |-> lines[i + 1][1]]
        valid == SelectSeq(atoms, ValidEntry)
    IN [i \in 1..Len(valid) |-> YamlValue(valid[i]).type]

\* C28: in a YAML proxy list a malformed entry (not a mapping, no server or
\* port, a port that is no integer) is skipped and every valid entry of the
\* document is still returned as a record.
C28_YamlEntrySkipped ==
    (pout.op = "parse" /\ IsYamlDoc(pin)) => Protocols(pout.recs) = ValidProtocols(pin)

\* scenario 2: a document with one valid trojan entry gives one record
YamlScenario2 ==
    (pout.op = "parse" /\ pin = YamlDoc(<<"Ytrojan">>))
        => /\ Len(pout.recs) = 1
           /\ unique_key(pout.recs[1]) = "1.1.1.1:443" /\ pout.recs[1].protocol = "trojan"

\* a text of one line that holds one valid URL of protocol dec
SingleUrl(text, dec) == text = UrlLine(dec)

\* C29: a text of one non-empty line that holds exactly one proxy URL gives
\* exactly one candidate, the trimmed line itself, and a valid URL so given
\* yields one record of its own protocol; vless:// and vmess:// included.
C29_SingleUrlOneCandidate ==
    \A dec \in Decoders :
        SingleUrl(pin, dec) =>
            /\ pout.op = "split" => pout.parts = <<strip(pin)>>
            /\ pout.op = "parse" => Protocols(pout.recs) = <<dec>>

\* the same for the protocols whose prefix does not end in "ss://"
SingleUrlOtherProtocols ==
    \A dec \in Decoders \ {"vless", "vmess"} :
        SingleUrl(pin, dec) =>
            /\ pout.op = "split" => pout.parts = <<strip(pin)>>
            /\ pout.op = "parse" => Protocols(pout.recs) = <<dec>>

\* ------------------------------------------------- the registry on its own
\* names an operator can type or tap: one seeded, one not
RegNames == {"srcA", "srcC"}

\* intervals an operator can send
InputIntervals == {1, 5, 60}

MinInterval == 5

HasSource(srcs, name) == SourceIndex(srcs, name) # 0

add_source_Overwrites(srcs, name, interval_minutes, t) ==
    IF HasSource(srcs, name)
    THEN [srcs EXCEPT ![SourceIndex(srcs, name)] = NewSource(name, interval_minutes, t)]
    ELSE Append(srcs, NewSource(name, interval_minutes, t))

add_source(srcs, name, interval_minutes, t) ==
    IF HasSource(srcs, name) THEN srcs
    ELSE Append(srcs, NewSource(name, interval_minutes, t))

set_source_interval(srcs, name, interval_minutes, t) ==
    LET j == SourceIndex(srcs, name)
    IN IF j = 0 THEN srcs
       ELSE [srcs EXCEPT ![j].sync_interval_minutes = interval_minutes,
                         ![j].next_sync_timestamp = t + interval_minutes * 60]

\* what a call leaves behind: the registry after it, the file (written by
\* _save_sources on the paths that reach it, kept when the write fails: the
\* exception is logged and swallowed), and the record of the call
RegistryCall(call, after, saves) ==
    /\ rop.seq < MaxOps
    /\ sources' = after
    /\ saved' = IF saves /\ call.ok THEN _save_sources(after) ELSE saved
    /\ rop' = [call EXCEPT !.seq = rop.seq + 1, !.t = now,
                            !.before = sources, !.file = saved]
    /\ UNCHANGED <<mvars, cache, now, store, is_running, scheduler_task, tasks, xvars, pvars, hvars>>

InitRegistry ==
    /\ mExisting = <<>> /\ mMerge = NoMerge /\ mRound = 1 /\ mKeys = {}
    /\ cache = EmptyCache
    /\ now = 0
    /\ sources = DefaultSources
    /\ saved = _save_sources(DefaultSources)
    /\ rop = NoOp
    /\ store = <<>>
    /\ manual = NoManual /\ kept = {}
    /\ pin = <<>> /\ pout = NoOut
    /\ source_manager = SameManager
    /\ is_running = FALSE /\ scheduler_task = 0 /\ tasks = <<>>

\* handle_add_source up to add_source: the interval is the fourth field of
\* the message as int() reads it, 60 when there is none
RegAdd ==
    \E name \in RegNames, interval \in InputIntervals, ok \in BOOLEAN :
        RegistryCall([NoOp EXCEPT !.op = "add", !.name = name, !.minutes = interval,
                                  !.ok = ok, !.ret = ~HasSource(sources, name)],
                     add_source(sources, name, interval, now),
                     ~HasSource(sources, name))

\* handle_confirm_delete_source
RegRemove ==
    \E name \in RegNames, ok \in BOOLEAN :
        RegistryCall([NoOp EXCEPT !.op = "remove", !.name = name,
                                  !.ok = ok, !.ret = HasSource(sources, name)],
                     remove_source(sources, name),
                     HasSource(sources, name))

\* enable_source
RegEnable ==
    \E name \in RegNames, enabled \in BOOLEAN, ok \in BOOLEAN :
        RegistryCall([NoOp EXCEPT !.op = "enable", !.name = name, !.flag = enabled,
                                  !.ok = ok, !.ret = HasSource(sources, name)],
                     enable_source(sources, name, enabled, now),
                     HasSource(sources, name))

\* handle_interval_input: an interval under 5 is turned away before
\* set_source_interval is called
RegSetInterval ==
    \E name \in RegNames, interval \in InputIntervals, ok \in BOOLEAN :
        /\ interval >= MinInterval
        /\ RegistryCall([NoOp EXCEPT !.op = "interval", !.name = name, !.minutes = interval,
                                     !.ok = ok, !.ret = HasSource(sources, name)],
                        set_source_interval(sources, name, interval, now),
                        HasSource(sources, name))

\* update_source_stats as a sync calls it
RegRecord ==
    \E name \in RegNames, success \in BOOLEAN, ok \in BOOLEAN :
        LET n == IF success THEN 2 ELSE 0
        IN RegistryCall([NoOp EXCEPT !.op = "record", !.name = name, !.flag = success,
                                     !.n = n, !.ok = ok, !.ret = HasSource(sources, name)],
                        update_source_stats(sources, name, success, n, now),
                        HasSource(sources, name))

NextRegistry ==
    \/ Tick
    \/ RegAdd
    \/ RegRemove
    \/ RegEnable
    \/ RegSetInterval
    \/ RegRecord

SpecRegistry == InitRegistry /\ [][NextRegistry]_vars

\* --------------------------------------- a manual sync beside the scheduler
\* the manual sync takes a step: W is [task, sources, store]
ApplyManual(W) ==
    /\ manual' = W.task
    /\ sources' = W.sources
    /\ saved' = IF W.sources # sources THEN _save_sources(W.sources) ELSE saved
    /\ store' = W.store
    /\ kept' = kept \cup Keys(LoadExisting(W.store))
    /\ rop' = rop

\* handle_sync_single_source calls _sync_single_source(source_name), which
\* runs to its first await
ManualStart ==
    /\ manual.pc = "idle"
    /\ \E name \in SourceNames :
          ApplyManual(SyncBegin([NewTask EXCEPT !.due = <<name>>], 1, sources, store, now))
    /\ UNCHANGED <<mvars, cache, now, is_running, scheduler_task, tasks, pvars, hvars>>

\* fetch_from_url returns to the manual sync
ManualFetchReturn ==
    /\ manual.pc = "fetch"
    /\ \E outcome \in FetchOutcomes(manual.due[1]) :
          ApplyManual(SyncFetched(manual, outcome, sources, store, cache, now))
    /\ UNCHANGED <<mvars, cache, now, is_running, scheduler_task, tasks, pvars, hvars>>

\* the country lookup the manual sync's merge waits for returns
ManualLookupReturn ==
    /\ manual.pc = "lookup"
    /\ \E r \in LookupResults :
          /\ cache' = CacheAfter(cache, manual.ms.inc[manual.ms.i].ip, r)
          /\ ApplyManual(SyncMerge(manual, MergeResume(manual.ms, cache, r), sources, store, now))
    /\ UNCHANGED <<mvars, now, is_running, scheduler_task, tasks, pvars, hvars>>

\* the handler has shown the result of the sync
ManualReplyReturn ==
    /\ manual.pc = "notify"
    /\ manual' = Ended
    /\ UNCHANGED <<mvars, cache, svars, rvars, kept, pvars, hvars>>

NextRace ==
    \/ StartScheduler
    \/ \E t \in 1..MaxTasks : LoopPoll(t)
    \/ \E t \in 1..MaxTasks : LoopFetchReturn(t)
    \/ \E t \in 1..MaxTasks : LoopLookupReturn(t)
    \/ \E t \in 1..MaxTasks : LoopNotifyReturn(t)
    \/ ManualStart
    \/ ManualFetchReturn
    \/ ManualLookupReturn
    \/ ManualReplyReturn

SpecRace == Init /\ [][NextRace]_vars

\* --------------------------------------------- a sync of all enabled sources
\* _sync_proxies runs in the task record of the manual operation: due holds
\* the names of enabled_sources, idx the source being fetched, ms.inc the
\* list all_new_proxies until the merge starts, sent the dict source_results

\* source_results[source.name] as the loop body sets it
SourceResult(name, outcome) ==
    [source |-> name,
     kind |-> IF outcome.kind = "error" THEN "error" ELSE ToString(Len(outcome.batch))]

\* _sync_proxies returns to manual_sync, which awaits the message it shows
AllReturn(task, result) ==
    [task EXCEPT !.pc = "notify", !.result = result, !.existing = <<>>, !.ms = NoMerge]

\* _sync_proxies from its start to its first await
SyncAllBegin(srcs, st) ==
    LET on == get_enabled_sources(srcs)
    IN IF on = <<>>
       THEN [task |-> AllReturn(NewTask, "fail"), sources |-> srcs, store |-> st]
       ELSE [task |-> [NewTask EXCEPT !.pc = "fetchAll",
                                      !.due = [i \in 1..Len(on) |-> on[i].name],
                                      !.idx = 1, !.existing = LoadExisting(st)],
             sources |-> srcs, store |-> st]

\* the merge of the sync goes on until it suspends or ends; at its end the
\* store is written and no source is touched
SyncAllMerge(task, ms, srcs, st) ==
    IF MergeDone(ms)
    THEN [task |-> AllReturn(task, "ok"), sources |-> srcs, store |-> SaveList(ms.map)]
    ELSE [task |-> [task EXCEPT !.pc = "lookupAll", !.ms = ms], sources |-> srcs, store |-> st]

\* the body of "for source in enabled_sources" after fetch_from_url came
\* back, and what follows it up to the next await
SyncAllFetched(task, outcome, srcs, st, cch, t) ==
    LET name == task.due[task.idx]
        recorded == IF outcome.kind = "content"
                    THEN update_source_stats(srcs, name, TRUE, Len(outcome.batch), t)
                    ELSE update_source_stats(srcs, name, FALSE, 0, t)
        tk == [task EXCEPT !.ms.inc = @ \o outcome.batch,
                           !.sent = Append(@, SourceResult(name, outcome))]
    IN IF task.idx < Len(task.due)
       THEN [task |-> [tk EXCEPT !.idx = @ + 1], sources |-> recorded, store |-> st]
       ELSE IF tk.ms.inc = <<>>
       THEN [task |-> AllReturn(tk, "fail"), sources |-> recorded, store |-> st]
       ELSE SyncAllMerge(tk, MergeRun(MergeStart(tk.existing, tk.ms.inc), cch),
                         recorded, st)

\* manual_sync calls _sync_proxies, which runs to its first await
AllStart ==
    /\ manual.pc = "idle"
    /\ ApplyManual(SyncAllBegin(sources, store))
    /\ UNCHANGED <<mvars, cache, now, is_running, scheduler_task, tasks, pvars, hvars>>

\* fetch_from_url returns to _sync_proxies
AllFetchReturn ==
    /\ manual.pc = "fetchAll"
    /\ \E outcome \in FetchOutcomes(manual.due[manual.idx]) :
          ApplyManual(SyncAllFetched(manual, outcome, sources, store, cache, now))
    /\ UNCHANGED <<mvars, cache, now, is_running, scheduler_task, tasks, pvars, hvars>>

\* the country lookup the merge of _sync_proxies waits for returns
AllLookupReturn ==
    /\ manual.pc = "lookupAll"
    /\ \E r \in LookupResults :
          /\ cache' = CacheAfter(cache, manual.ms.inc[manual.ms.i].ip, r)
          /\ ApplyManual(SyncAllMerge(manual, MergeResume(manual.ms, cache, r), sources, store))
    /\ UNCHANGED <<mvars, now, is_running, scheduler_task, tasks, pvars, hvars>>

NextAll ==
    \/ Tick
    \/ ToggleSource
    \/ ManualStart
    \/ ManualFetchReturn
    \/ ManualLookupReturn
    \/ ManualReplyReturn
    \/ AllStart
    \/ AllFetchReturn
    \/ AllLookupReturn

SpecAll == Init /\ [][NextAll]_vars

\* ------------------------------------------------- reset of the sync settings
\* ProxySourceManager._load_sources on an existing file: a source whose
\* next_sync_timestamp is None becomes due at the time of the load
_load_sources(file, t) ==
    [i \in 1..Len(file) |->
        IF file[i].next_sync_timestamp = NoTime
        THEN [file[i] EXCEPT !.next_sync_timestamp = t]
        ELSE file[i]]

\* the registry of the handler's manager, which _sync_single_source and
\* start_auto_sync use
OwnSources == IF source_manager.same THEN sources ELSE source_manager.sources

\* _run_loop from "while self.is_running" to its next await: the due sources
\* come from the scheduler's manager (sched), the sync works on the handler's
PollOwn(task, running, sched, own, st, t) ==
    IF ~running THEN [task |-> Ended, sources |-> own, store |-> st]
    ELSE LET due == get_due_sources(sched, t)
         IN IF due = <<>>
            THEN [task |-> Asleep, sources |-> own, store |-> st]
            ELSE SyncBegin([NewTask EXCEPT !.due = due], 1, own, st, t)

\* W.sources is the registry of the handler's manager after the step
ApplyOwn(t, W) ==
    /\ tasks' = [tasks EXCEPT ![t] = W.task]
    /\ IF source_manager.same
       THEN sources' = W.sources /\ source_manager' = source_manager
       ELSE sources' = sources /\ source_manager' = [source_manager EXCEPT !.sources = W.sources]
    /\ saved' = IF W.sources # OwnSources THEN _save_sources(W.sources) ELSE saved
    /\ store' = W.store
    /\ kept' = kept \cup Keys(LoadExisting(W.store))
    /\ rop' = rop

\* reset_sync_settings: stop_scheduler, then self.source_manager becomes a new
\* ProxySourceManager loaded from the file; self.scheduler keeps the manager
\* it was constructed with
ResetSettings ==
    /\ IF ~is_running
       THEN UNCHANGED <<is_running, scheduler_task, tasks>>
       ELSE /\ is_running' = FALSE
            /\ tasks' = IF scheduler_task # 0
                        THEN [tasks EXCEPT ![scheduler_task] = Cancelled(@)]
                        ELSE tasks
            /\ scheduler_task' = 0
    /\ source_manager' = [same |-> FALSE, sources |-> _load_sources(saved, now)]
    /\ UNCHANGED <<mvars, cache, now, sources, store, rvars, xvars, pvars>>

\* start_auto_sync -> start_scheduler
StartAutoSync ==
    /\ get_enabled_sources(OwnSources) # <<>>
    /\ Len(tasks) < MaxTasks
    /\ IF is_running
       THEN UNCHANGED <<is_running, scheduler_task, tasks>>
       ELSE /\ is_running' = TRUE
            /\ tasks' = Append(tasks, NewTask)
            /\ scheduler_task' = Len(tasks) + 1
    /\ UNCHANGED <<mvars, cache, now, sources, store, rvars, xvars, pvars, hvars>>

RunPoll(t) ==
    /\ t <= Len(tasks)
    /\ tasks[t].pc \in {"new", "sleep"}
    /\ \A j \in 1..Len(sources) :
          IsDue(sources[j], now) => sources[j].success_count + sources[j].fail_count < MaxCount
    /\ \A j \in 1..Len(OwnSources) :
          OwnSources[j].success_count + OwnSources[j].fail_count <= MaxCount
    /\ ApplyOwn(t, PollOwn(tasks[t], is_running, sources, OwnSources, store, now))
    /\ UNCHANGED <<mvars, cache, now, is_running, scheduler_task, manual, pvars>>

RunFetchReturn(t) ==
    /\ t <= Len(tasks)
    /\ tasks[t].pc = "fetch"
    /\ \E outcome \in FetchOutcomes(tasks[t].due[tasks[t].idx]) :
          ApplyOwn(t, SyncFetched(tasks[t], outcome, OwnSources, store, cache, now))
    /\ UNCHANGED <<mvars, cache, now, is_running, scheduler_task, manual, pvars>>

RunLookupReturn(t) ==
    /\ t <= Len(tasks)
    /\ tasks[t].pc = "lookup"
    /\ \E r \in LookupResults :
          LET ms == tasks[t].ms
          IN /\ cache' = CacheAfter(cache, ms.inc[ms.i].ip, r)
             /\ ApplyOwn(t, SyncMerge(tasks[t], MergeResume(ms, cache, r), OwnSources, store, now))
    /\ UNCHANGED <<mvars, now, is_running, scheduler_task, manual, pvars>>

RunNotifyReturn(t) ==
    /\ t <= Len(tasks)
    /\ tasks[t].pc = "notify"
    /\ ApplyOwn(t, AfterNotify(tasks[t], OwnSources, store, now))
    /\ UNCHANGED <<mvars, cache, now, is_running, scheduler_task, manual, pvars>>

NextReset ==
    \/ Tick
    \/ StartAutoSync
    \/ ResetSettings
    \/ \E t \in 1..MaxTasks : RunPoll(t)
    \/ \E t \in 1..MaxTasks : RunFetchReturn(t)
    \/ \E t \in 1..MaxTasks : RunLookupReturn(t)
    \/ \E t \in 1..MaxTasks : RunNotifyReturn(t)
    \/ \E t \in 1..MaxTasks : LoopExit(t)

SpecReset == Init /\ [][NextReset]_vars

\* ------------------------------------------------- the scheduler kept running
\* a registry as the file can hold it: each source enabled or not, the first
\* due from the start, the second from the start or only after the first
\* interval
LiveRegistries ==
    {<<[NewSource("srcA", DefaultSyncInterval, 0) EXCEPT !.enabled = ea],
       [NewSource("srcB", DefaultSyncInterval, tb) EXCEPT !.enabled = eb]>> :
         ea \in BOOLEAN, eb \in BOOLEAN, tb \in {0, DefaultSyncInterval * 60}}

InitLive ==
    /\ mExisting = <<>> /\ mMerge = NoMerge /\ mRound = 1 /\ mKeys = {}
    /\ cache = EmptyCache
    /\ now = 0
    /\ sources \in LiveRegistries
    /\ saved = _save_sources(sources) /\ rop = NoOp
    /\ store = <<ProxyData("1.1.1.1", 443, "Old", "stored")>>
    /\ manual = NoManual /\ kept = {"1.1.1.1:443"}
    /\ pin = <<>> /\ pout = NoOut
    /\ source_manager = SameManager
    /\ is_running = FALSE
    /\ scheduler_task = 0
    /\ tasks = <<>>

\* a loop task runs for the first time, or wakes from the poll sleep
PassPoll(t) ==
    /\ t <= Len(tasks)
    /\ tasks[t].pc \in {"new", "sleep"}
    /\ Apply(t, Poll(tasks[t], is_running, sources, store, now))
    /\ UNCHANGED <<mvars, cache, now, is_running, scheduler_task, manual, pvars, hvars>>

NextLive ==
    \/ Tick
    \/ StartScheduler
    \/ \E t \in 1..MaxTasks : PassPoll(t)
    \/ \E t \in 1..MaxTasks : LoopFetchReturn(t)
    \/ \E t \in 1..MaxTasks : LoopLookupReturn(t)
    \/ \E t \in 1..MaxTasks : LoopNotifyReturn(t)

\* the scheduler is never stopped; every sleep, fetch, lookup and
\* notification the loop awaits comes to an end
SpecLive ==
    /\ InitLive /\ [][NextLive]_vars
    /\ WF_vars(\E t \in 1..MaxTasks : PassPoll(t))
    /\ WF_vars(\E t \in 1..MaxTasks : LoopFetchReturn(t))
    /\ WF_vars(\E t \in 1..MaxTasks : LoopLookupReturn(t))
    /\ WF_vars(\E t \in 1..MaxTasks : LoopNotifyReturn(t))

\* ------------------------------------------------------- claims on the registry
\* the source of a name in a registry that holds it
SourceOf(srcs, name) == srcs[SourceIndex(srcs, name)]

NamesOf(srcs) == {srcs[j].name : j \in 1..Len(srcs)}

\* C11: update_source_stats on a source of the registry sets its
\* next_sync_timestamp to the time of the call plus sync_interval_minutes * 60,
\* on failure as on success, and adds one to exactly one of success_count
\* (success) and fail_count (failure), leaving the other as it was
C11_RecordReschedulesAlways ==
    (rop.op = "record" /\ HasSource(rop.before, rop.name)) =>
        LET b == SourceOf(rop.before, rop.name)
            a == SourceOf(sources, rop.name)
        IN /\ HasSource(sources, rop.name)
           /\ a.next_sync_timestamp = rop.t + b.sync_interval_minutes * 60
           /\ a.sync_interval_minutes = b.sync_interval_minutes
           /\ a.success_count = b.success_count + (IF rop.flag THEN 1 ELSE 0)
           /\ a.fail_count = b.fail_count + (IF rop.flag THEN 0 ELSE 1)

\* scenario 6: a failed sync of a source with interval 60 gives now + 3600
C11_Witness ==
    /\ rop.op = "record" /\ ~rop.flag
    /\ HasSource(rop.before, rop.name)
    /\ SourceOf(rop.before, rop.name).sync_interval_minutes = 60
    /\ SourceOf(sources, rop.name).next_sync_timestamp = rop.t + 3600

\* C12: get_due_sources returns, in registry order, exactly the sources that
\* are enabled and whose next_sync_timestamp is None or not after now; a
\* source is due right after a successful add and right after a successful
\* enable_source(name, True)
C12_DueExactly ==
    LET due == get_due_sources(sources, now)
        wanted == {j \in 1..Len(sources) :
                      /\ sources[j].enabled
                      /\ \/ sources[j].next_sync_timestamp = NoTime
                         \/ sources[j].next_sync_timestamp <= now}
    IN /\ Range(due) = {sources[j].name : j \in wanted}
       /\ Len(due) = Cardinality(wanted)
       /\ \A p, q \in 1..Len(due) :
             p < q => SourceIndex(sources, due[p]) < SourceIndex(sources, due[q])
       /\ (rop.ret /\ (rop.op = "add" \/ (rop.op = "enable" /\ rop.flag))) =>
             rop.name \in Range(get_due_sources(sources, rop.t))

\* a source that was scheduled for later is due after
\* enable_source(name, True)
C12_Witness ==
    /\ rop.op = "enable" /\ rop.flag /\ rop.ret
    /\ SourceOf(rop.before, rop.name).next_sync_timestamp > rop.t
    /\ rop.name \in Range(get_due_sources(sources, now))

\* C13: add with a name of the registry, and remove, enable_source and
\* set_source_interval with a name not in it, return False and leave the
\* registry and the registry file as they were
C13_FailedCallChangesNothing ==
    /\ (rop.op = "add" /\ HasSource(rop.before, rop.name)) => ~rop.ret
    /\ (rop.op \in {"remove", "enable", "interval"} /\ ~HasSource(rop.before, rop.name)) =>
          ~rop.ret
    /\ (rop.op \in {"add", "remove", "enable", "interval"} /\ ~rop.ret) =>
          /\ sources = rop.before
          /\ saved = rop.file

\* an add of a seeded name with an interval the seeded source does not have
C13_Witness ==
    /\ rop.op = "add" /\ ~rop.ret
    /\ HasSource(sources, rop.name)
    /\ SourceOf(sources, rop.name).sync_interval_minutes # rop.minutes

\* C14: every source of the registry has sync_interval_minutes >= 5
C14_IntervalAtLeastFive ==
    \A j \in 1..Len(sources) : sources[j].sync_interval_minutes >= MinInterval

\* C15: after a call of add_source, remove_source, enable_source,
\* set_source_interval or update_source_stats that took effect and whose
\* write of the file succeeded, the file holds the registry
C15_SavedAfterCall ==
    (rop.op # "none" /\ rop.ret /\ rop.ok) => saved = sources

\* the file was behind the registry (an earlier write failed) and the call
\* brought it level
C15_Witness ==
    /\ rop.op # "none" /\ rop.ret /\ rop.ok
    /\ rop.file # rop.before
    /\ sources # rop.before
    /\ saved = sources
    /\ \E j \in 1..Len(sources) : ~sources[j].enabled

\* ------------------------------------------------------ claims on the scheduler
TaskIds == 1..Len(tasks)

InSync(task) == task.pc \in {"fetch", "lookup"}

ActiveTasks == {t \in TaskIds : tasks[t].pc \in ActivePcs}

\* C8: a sync of a source that the scheduler is executing is never aborted
\* part-way, whatever is called meanwhile (stop included): from a position
\* inside the sync the loop task only stays inside the sync or reaches the
\* point where the sync has returned its result (the notification)
C8_SyncRunsToCompletion ==
    [][\A t \in TaskIds :
          InSync(tasks[t]) => tasks'[t].pc \in {"fetch", "lookup", "notify"}]_vars

\* C9: the scheduler is Running exactly when a loop task is registered; at
\* most one loop task is ever at a position from which it checks due sources
\* or syncs, and it is the registered one; a start while Running registers
\* no task and a stop while Stopped cancels none
C9_AtMostOneLoop ==
    /\ [](/\ is_running <=> scheduler_task # 0
          /\ Cardinality(ActiveTasks) <= 1
          /\ ActiveTasks = IF scheduler_task = 0 THEN {} ELSE {scheduler_task})
    /\ [][/\ (is_running /\ is_running') =>
                 (scheduler_task' = scheduler_task /\ Len(tasks') = Len(tasks))
          /\ (~is_running /\ ~is_running') =>
                 (scheduler_task' = 0 /\ Len(tasks') = Len(tasks)
                  /\ \A t \in TaskIds : tasks'[t].pc \in ActivePcs => tasks'[t] = tasks[t])
         ]_vars

\* stop was followed by start while the cancelled loop had not ended yet
C9_Witness ==
    /\ is_running
    /\ scheduler_task = 2
    /\ tasks[1].pc = "dying"
    /\ tasks[2].pc = "fetch"

\* C10: when the sync of a due source has failed, the notification the loop
\* sends is the failure message for that source; the notifications of a pass
\* follow the due list in order; once the failure message is sent the loop
\* goes on with the next source of the same due list (or sleeps until the
\* next poll after the last one), and the scheduler is still Running
C10_FailureIsolated ==
    /\ [](\A t \in TaskIds :
            LET k == tasks[t] IN
            /\ k.pc \in {"fetch", "lookup"} => Len(k.sent) = k.idx - 1
            /\ k.pc = "notify" =>
                  /\ Len(k.sent) = k.idx
                  /\ k.result # "ok" => k.sent[k.idx].kind = "failed"
            /\ k.pc \in {"fetch", "lookup", "notify"} =>
                  /\ k.idx \in 1..Len(k.due)
                  /\ \A i \in 1..Len(k.sent) : k.sent[i].source = k.due[i])
    /\ [][\A t \in TaskIds :
            LET k == tasks[t] IN
            (k.pc = "notify" /\ k.result # "ok" /\ tasks'[t] # k /\ tasks'[t].pc # "dying") =>
                /\ is_running /\ is_running'
                /\ IF k.idx < Len(k.due)
                   THEN /\ tasks'[t].due = k.due
                        /\ tasks'[t].idx = k.idx + 1
                        /\ tasks'[t].pc \in {"fetch", "notify"}
                   ELSE tasks'[t].pc = "sleep"
         ]_vars

\* the first of two due sources failed, was reported, and the second is
\* being fetched
C10_Witness ==
    \E t \in TaskIds :
        /\ is_running
        /\ tasks[t].pc = "fetch"
        /\ Len(tasks[t].due) = 2
        /\ tasks[t].idx = 2
        /\ tasks[t].sent = <<[source |-> tasks[t].due[1], kind |-> "failed"]>>

\* the loop task has in this step come to the end of an attempt of a due
\* source: it now awaits the notification for it
AttemptEnded(t) ==
    /\ t <= Len(tasks) /\ t <= Len(tasks')
    /\ tasks'[t].pc = "notify"
    /\ tasks[t].pc # "notify" \/ tasks[t].idx # tasks'[t].idx

\* C24: in every execution, with a reset of the sync settings and a restart
\* of the scheduler among its steps, when the scheduler has attempted a due
\* source at time t (success or failure) the registry the scheduler reads
\* holds next_sync_timestamp = t + sync_interval_minutes * 60 for that source,
\* so the source is not due again before that time.
C24_AttemptReschedulesForScheduler ==
    [][\A t \in 1..MaxTasks :
          AttemptEnded(t)
              => LET name == tasks'[t].due[tasks'[t].idx]
                 IN HasSource(sources', name)
                        => /\ SourceOf(sources', name).next_sync_timestamp
                                = now + SourceOf(sources', name).sync_interval_minutes * 60
                           /\ ~IsDue(SourceOf(sources', name), now)]_vars

DueNow(name) ==
    HasSource(sources, name) /\ IsDue(SourceOf(sources, name), now)

\* a loop task has just attempted the source: the attempt is recorded at the
\* present time and the loop awaits the notification for it
AttemptedNow(name) ==
    /\ \E t \in 1..Len(tasks) :
          tasks[t].pc = "notify" /\ tasks[t].due[tasks[t].idx] = name
    /\ HasSource(sources, name) /\ SourceOf(sources, name).last_sync = now

\* C25: while the scheduler stays running and every sync and notification
\* terminates, every enabled source that is due is eventually attempted by
\* the scheduler, whatever other sources are due and however their syncs end.
C25_DueSourceEventuallyAttempted ==
    \A name \in SourceNames : (is_running /\ DueNow(name)) ~> AttemptedNow(name)

\* the second source is attempted after the sync of the first one failed,
\* and was due a second time after the clock went on
C25_Witness ==
    /\ is_running /\ now > 0
    /\ AttemptedNow("srcB")
    /\ SourceOf(sources, "srcA").fail_count > 0
    /\ SourceOf(sources, "srcB").success_count + SourceOf(sources, "srcB").fail_count = 2

\* between two registries nothing differs but fail_count, last_sync and
\* next_sync_timestamp of the named source
OnlyFailureRecorded(old, new, name) ==
    /\ Len(new) = Len(old)
    /\ \A j \in 1..Len(old) :
          IF old[j].name = name
          THEN new[j] = [old[j] EXCEPT !.fail_count = new[j].fail_count,
                                       !.last_sync = new[j].last_sync,
                                       !.next_sync_timestamp = new[j].next_sync_timestamp]
          ELSE new[j] = old[j]

\* C26: a sync of one source that fails (source unknown or disabled, fetch
\* returns nothing, zero records parsed) leaves the persisted proxy store as
\* it was and changes no field of any other source; of the named source only
\* fail_count, last_sync and next_sync_timestamp may change. The step that
\* starts a sync and suspends it at the fetch changes neither.
C26_FailedSyncFrame ==
    [][\A t \in 1..MaxTasks :
          /\ (AttemptEnded(t) /\ tasks'[t].result = "fail")
                => /\ store' = store
                   /\ OnlyFailureRecorded(sources, sources', tasks'[t].due[tasks'[t].idx])
          /\ (t <= Len(tasks) /\ t <= Len(tasks') /\ tasks'[t] # tasks[t]
                /\ tasks'[t].pc = "fetch")
                => store' = store /\ sources' = sources]_vars

\* the sync of srcA has failed after its fetch, srcB having synced before
C26_Witness ==
    \E t \in 1..Len(tasks) :
        /\ tasks[t].pc = "notify" /\ tasks[t].result = "fail"
        /\ tasks[t].due[tasks[t].idx] = "srcA"
        /\ HasSource(sources, "srcA") /\ SourceOf(sources, "srcA").fail_count = 1
        /\ HasSource(sources, "srcB") /\ SourceOf(sources, "srcB").success_count = 1
        /\ Len(store) > 1

\* ---------------------------------------------- claims on concurrent syncs
SyncsFinished ==
    /\ manual.pc \in {"notify", "done"}
    /\ \A t \in TaskIds : ~InSync(tasks[t])

\* C16: once the manual sync and the scheduler's sync have both finished,
\* every unique_key that was in the persisted proxy file before them, or that
\* one of them wrote into it, is in the file
C16_NoKeyLost ==
    SyncsFinished => kept \subseteq Keys(LoadExisting(store))

\* ------------------------------------------- claims on the sync of all sources
\* fetch_from_url gave content and parse_proxies found no record in it
ZeroRecords == [kind |-> "content", batch |-> <<>>]

\* the registry after _sync_single_source(name) got this outcome of its fetch
SyncOneRecord(srcs, name, outcome, st, cch, t) ==
    SyncFetched([NewTask EXCEPT !.pc = "fetch", !.due = <<name>>, !.idx = 1,
                                !.existing = LoadExisting(st)],
                outcome, srcs, st, cch, t).sources

\* the attempt on the named source was counted as a failure
FailureCounted(old, new, name) ==
    /\ SourceOf(new, name).fail_count = SourceOf(old, name).fail_count + 1
    /\ SourceOf(new, name).success_count = SourceOf(old, name).success_count
    /\ SourceOf(new, name).last_proxy_count = SourceOf(old, name).last_proxy_count

\* _sync_proxies has dealt with the fetch of the source it was waiting for
AllSourceDone == manual.pc = "fetchAll" /\ Len(manual'.sent) = Len(manual.sent) + 1

\* _sync_single_source, called by the handler, has failed after its fetch
OneSourceFailed == manual.pc = "fetch" /\ manual'.pc = "notify" /\ manual'.result = "fail"

\* a sync of one source that gets nothing or no record counts a failure
SyncOneZeroIsFailure ==
    [][OneSourceFailed =>
          LET name == manual.due[1]
          IN HasSource(sources, name) => FailureCounted(sources, sources', name)]_vars

\* C30: the sync of all sources and the sync of one source record the same
\* outcome for a source whose fetch gave zero records: the registry the sync
\* of all leaves is the one the sync of one source leaves for content without
\* a record, the attempt counted as a failure (fail_count + 1, success_count
\* and last_proxy_count unchanged).
C30_SameOutcomeForZeroRecords ==
    [][/\ (AllSourceDone /\ manual'.sent[Len(manual'.sent)].kind = "0") =>
             LET name == manual.due[manual.idx]
             IN HasSource(sources, name) =>
                   /\ sources' = SyncOneRecord(sources, name, ZeroRecords, store, cache, now)
                   /\ FailureCounted(sources, sources', name)
       /\ OneSourceFailed =>
             LET name == manual.due[1]
             IN HasSource(sources, name) => FailureCounted(sources, sources', name)]_vars

====
